---- MODULE Spec2Model ----
(***************************************************************************)
(* Deferred status transition of meetings (occurrences): the meeting      *)
(* store, the scheduler's job store, the clock, the process lifecycle     *)
(* and the handlers of backend/app that arm, cancel and fire the          *)
(* "flip to done" job of a meeting, and the materialization of the        *)
(* meetings of a recurrence pattern, the membership quota of meeting       *)
(* creation, and the scoped updates and deletes of the meetings of a       *)
(* pattern.                                                                *)
(*                                                                         *)
(* Configuration modelled: the defaults of app/config.py (environment     *)
(* "dev", enable_meeting_status_updates true): the job store is the       *)
(* persistent SQLAlchemyJobStore, which outlives the process.  The        *)
(* variable scheduler tells whether SchedulerService built its scheduler  *)
(* (it is None when the initialization raised).  Instants are integers    *)
(* (UTC) and every comparison of two instants is defined; one clock unit  *)
(* is longer than the scheduler's misfire grace time, which               *)
(* scheduler_service.py leaves at the library default.  The storage       *)
(* calls of the handlers never suspend (their bodies are synchronous),    *)
(* so each handler runs as one step of the event loop; the fire callback  *)
(* runs on the scheduler's executor, so its dispatch and its execution    *)
(* are two steps (RaceSpec takes its query and its commit apart).         *)
(*                                                                         *)
(* Specifications:                                                         *)
(*   Spec         the life cycle: clock, shutdown, start, dispatch, fire,  *)
(*                recovery, and create, update, delete of standalone       *)
(*                meetings                                                 *)
(*   RestartSpec  the life cycle without user edits, with fairness         *)
(*   StoreSpec    the handlers of the meeting and recurrence stores with   *)
(*                their delete scopes, and recovery, at a standing clock   *)
(*   ArmSpec      direct calls of the job store                            *)
(*   MatSpec      _generate_meeting_instances applied to a request         *)
(*   QuotaSpec    creation of recurrences and of standalone meetings       *)
(*                against the credits of a membership                      *)
(*   ScopeSpec    one scoped update, through either service, of meetings   *)
(*                of a pattern that plain edits moved within their day     *)
(*   OrphanSpec   one scoped update of a meeting that is absent or whose   *)
(*                pattern is not stored                                    *)
(*   PriceSpec    the times, the rate and the total price of one meeting   *)
(*   FaultSpec    one scoped update during which store updates fail        *)
(*   RaceSpec     the fire callback's query and commit beside user edits   *)
(***************************************************************************)
EXTENDS Integers, FiniteSets, Sequences, TLC

\* ------------------------------------------------------------------ bounds
MaxMeetings == 1      \* meetings created in a behaviour of the life cycle
MaxSeries == 2        \* meetings created in a behaviour of the store handlers
NumJobIds == 3        \* meeting ids the job store is called with directly
MaxTime == 2          \* the last instant of the clock
NumRecs == 1          \* recurrence patterns
Year == 2024          \* the year of the start dates of a materialization
MaxSpan == 31         \* days from the start date to the end date
MaxTod == 1           \* the last time of day

Ids == 1..MaxMeetings
JobIds == 1..NumJobIds
Times == 0..MaxTime
RecIds == 1..NumRecs

\* recurrence_id is None, a field of an update request is None
NoRec == 0
None == -1
NoScope == "None"
NoStatus == "None"

\* ------------------------------------------------------- program enumerations
UPCOMING == "upcoming"
DONE == "done"
CANCELED == "canceled"
MeetingStatus == {UPCOMING, DONE, CANCELED}

THIS_MEETING_ONLY == "this_meeting_only"
THIS_AND_FUTURE == "this_and_future"
ALL_MEETINGS == "all_meetings"
RecurrenceUpdateScope == {THIS_MEETING_ONLY, THIS_AND_FUTURE, ALL_MEETINGS}

enable_meeting_status_updates == TRUE

VARIABLES
    meetings,        \* meeting store: a function from the ids of the stored meetings to their rows
    recurrences,     \* recurrence store: the ids of the stored recurrence patterns
    jobs,            \* scheduler job store: a set of jobs [id, run]
    firing,          \* ids whose fire callback was dispatched to the executor and has not run yet
    now,             \* the clock
    running,         \* the process is up
    scheduler,       \* SchedulerService.scheduler is not None (FALSE: its initialization failed)
    nextId,          \* the next fresh meeting id (uuid4 never returns a used id)
    last,            \* history: the last operation and what it returned
    calls,           \* history: for each id, the last call of the job store made for it
    memberships,     \* membership store: a function from the ids of the stored memberships to their rows
    patterns,        \* recurrence store: the rows (times of day) of the stored recurrence patterns
    reads            \* the rows that the fire callbacks in progress read: a function from ids to rows

vars == <<meetings, recurrences, jobs, firing, now, running, scheduler, nextId, last, calls, memberships,
         patterns, reads>>

\* ------------------------------------------------------------ store helpers
Exists(ms, id) == id \in DOMAIN ms

Remove(ms, id) == [i \in (DOMAIN ms) \ {id} |-> ms[i]]

Put(ms, id, row) == [i \in (DOMAIN ms) \cup {id} |-> IF i = id THEN row ELSE ms[i]]

\* the first meeting of a query result (the model lists a result in id order)
First(S) == CHOOSE x \in S : \A y \in S : x <= y

JobsOf(js, id) == {j \in js : j.id = id}

\* SchedulerService.scheduler.get_job(job_id) is not None
HasJob(js, id) == JobsOf(js, id) # {}

\* ------------------------------------------------------------- the scheduler
\* faulty variant: the new job is added and the id's old job is kept
ScheduleNoReplace(js, id, t) ==
    IF ~scheduler \/ ~enable_meeting_status_updates THEN js
    ELSE js \cup {[id |-> id, run |-> t]}

\* SchedulerService.schedule_meeting_status_update: remove the job of the id if
\* there is one, then add the new job
schedule_meeting_status_update(js, id, t) ==
    IF ~scheduler \/ ~enable_meeting_status_updates THEN js
    ELSE LET removed == IF HasJob(js, id) THEN js \ JobsOf(js, id) ELSE js
         IN  removed \cup {[id |-> id, run |-> t]}

\* SchedulerService.cancel_meeting_status_update
cancel_meeting_status_update(js, id) ==
    IF ~scheduler THEN js
    ELSE IF HasJob(js, id) THEN js \ JobsOf(js, id) ELSE js

\* faulty variant: the status is written whatever it was
FireIgnoresStatus(ms, id, current_time) ==
    IF ~Exists(ms, id) THEN ms
    ELSE IF ms[id].end > current_time THEN ms
    ELSE [ms EXCEPT ![id].status = DONE]

\* faulty variant: the end time is not compared with the current time
FireIgnoresEnd(ms, id, current_time) ==
    IF ~Exists(ms, id) THEN ms
    ELSE IF ms[id].status = UPCOMING THEN [ms EXCEPT ![id].status = DONE]
    ELSE ms

\* update_meeting_status(meeting_id) run at current_time: the new meeting store
update_meeting_status(ms, id, current_time) ==
    IF ~Exists(ms, id) THEN ms
    ELSE IF ms[id].end > current_time THEN ms
    ELSE IF ms[id].status = UPCOMING THEN [ms EXCEPT ![id].status = DONE]
    ELSE ms

\* ------------------------------------------------------ MeetingService handlers
\* A handler maps the stores to the stores it leaves: [ms |-> meetings, js |-> jobs].
Stores(ms, js) == [ms |-> ms, js |-> js]

\* MeetingService.create_meeting: store the row, then arm the job of an upcoming meeting
create_meeting(ms, js, id, req) ==
    LET created == Put(ms, id, req)
    IN  IF created[id].status = UPCOMING
        THEN Stores(created, schedule_meeting_status_update(js, id, created[id].end))
        ELSE Stores(created, js)

\* storage.update: only the fields of the request that are not None are written
ApplyFields(row, upd) ==
    [row EXCEPT !.start = IF upd.start # None THEN upd.start ELSE @,
                !.end = IF upd.end # None THEN upd.end ELSE @,
                !.status = IF upd.status # NoStatus THEN upd.status ELSE @]

\* MeetingService._update_single_meeting: write the row, then, only when the
\* request carries an end time, re-arm (upcoming) or cancel (otherwise) the job
_update_single_meeting(ms, js, id, upd) ==
    IF ~Exists(ms, id) THEN Stores(ms, js)
    ELSE LET updated == [ms EXCEPT ![id] = ApplyFields(@, upd)]
         IN  IF upd.end # None
             THEN IF updated[id].status = UPCOMING
                  THEN Stores(updated, schedule_meeting_status_update(js, id, updated[id].end))
                  ELSE Stores(updated, cancel_meeting_status_update(js, id))
             ELSE Stores(updated, js)

\* storage.get_all(user_id, {"recurrence_id": r}): the ids of the meetings of a recurrence
get_recurring_meetings(ms, r) == {i \in DOMAIN ms : ms[i].rec = r}

\* a loop of "cancel the job, delete the row" over the meetings of a set
RECURSIVE CancelAndDeleteAll(_, _, _)
CancelAndDeleteAll(ms, js, S) ==
    IF S = {} THEN Stores(ms, js)
    ELSE LET i == First(S)
         IN  CancelAndDeleteAll(Remove(ms, i), cancel_meeting_status_update(js, i), S \ {i})

\* MeetingService._delete_recurring_meeting, entered after the target's job was cancelled
_delete_recurring_meeting(ms, js, id, scope) ==
    IF scope \notin RecurrenceUpdateScope THEN Stores(ms, js)
    ELSE IF scope = THIS_MEETING_ONLY THEN Stores(Remove(ms, id), js)
    ELSE IF scope = THIS_AND_FUTURE
    THEN LET future_meetings ==
                 {i \in get_recurring_meetings(Remove(ms, id), ms[id].rec) :
                      ms[i].status = UPCOMING /\ ms[i].start > ms[id].start}
         IN  CancelAndDeleteAll(Remove(ms, id), js, future_meetings)
    ELSE CancelAndDeleteAll(ms, js, get_recurring_meetings(ms, ms[id].rec))

\* faulty variant: the target's job is not cancelled before the delete
DeleteNoCancel(ms, js, id, scope) ==
    IF ~Exists(ms, id) THEN Stores(ms, js)
    ELSE IF ms[id].rec # NoRec /\ scope # NoScope
         THEN _delete_recurring_meeting(ms, js, id, scope)
         ELSE Stores(Remove(ms, id), js)

\* MeetingService.delete_meeting(user_id, meeting_id, delete_scope)
delete_meeting(ms, js, id, scope) ==
    IF ~Exists(ms, id) THEN Stores(ms, js)
    ELSE LET cancelled == cancel_meeting_status_update(js, id)
         IN  IF ms[id].rec # NoRec /\ scope # NoScope
             THEN _delete_recurring_meeting(ms, cancelled, id, scope)
             ELSE Stores(Remove(ms, id), cancelled)

\* MeetingService.delete_meeting ends with ValueError("Invalid delete_scope"): the
\* meeting is stored, is of a recurrence, and a scope outside the enumeration is given
delete_meeting_raises(ms, id, scope) ==
    /\ Exists(ms, id)
    /\ ms[id].rec # NoRec
    /\ scope # NoScope
    /\ scope \notin RecurrenceUpdateScope

\* a loop of delete_meeting(user_id, m.id) over the meetings of a set, in id order
RECURSIVE DeleteEach(_, _, _)
DeleteEach(ms, js, S) ==
    IF S = {} THEN Stores(ms, js)
    ELSE LET i == First(S)
             st == delete_meeting(ms, js, i, NoScope)
         IN  DeleteEach(st.ms, st.js, S \ {i})

\* RecurrenceService._delete_recurring_meetings_with_scope
_delete_recurring_meetings_with_scope(ms, js, id, scope) ==
    LET all_meetings == get_recurring_meetings(ms, ms[id].rec)
        meetings_to_delete ==
            IF scope = "future"
            THEN {i \in all_meetings : ms[i].start >= ms[id].start}
            ELSE all_meetings
    IN  DeleteEach(ms, js, meetings_to_delete)

\* RecurrenceService.delete_recurring_meeting(user_id, meeting_id, delete_scope)
delete_recurring_meeting(ms, js, id, scope) ==
    IF ~Exists(ms, id) THEN Stores(ms, js)
    ELSE IF ms[id].rec = NoRec THEN delete_meeting(ms, js, id, NoScope)
    ELSE IF scope = THIS_MEETING_ONLY THEN delete_meeting(ms, js, id, NoScope)
    ELSE IF scope = THIS_AND_FUTURE THEN _delete_recurring_meetings_with_scope(ms, js, id, "future")
    ELSE IF scope = ALL_MEETINGS THEN _delete_recurring_meetings_with_scope(ms, js, id, "all")
    ELSE delete_meeting(ms, js, id, NoScope)

\* RecurrenceService.delete_recurring_meeting ends with ValueError("Meeting not found")
delete_recurring_meeting_raises(ms, id, scope) == ~Exists(ms, id)

\* RecurrenceService.delete_recurrence: delete the meetings of the pattern, then the pattern
delete_recurrence(ms, js, r) ==
    DeleteEach(ms, js, get_recurring_meetings(ms, r))

\* MeetingService.update_meeting for a request without update_scope
update_meeting(ms, js, id, upd) ==
    IF ~Exists(ms, id) THEN Stores(ms, js)
    ELSE _update_single_meeting(ms, js, id, upd)

\* ------------------------------------------------------------------ recovery
\* the summary MeetingService.ensure_scheduled_jobs_for_existing_meetings returns;
\* errors holds the ids of the meetings whose error message was appended
Report(total, scheduled, already, skipped, errors) ==
    [total_meetings |-> total, jobs_scheduled |-> scheduled, jobs_already_exist |-> already,
     meetings_skipped |-> skipped, errors |-> errors, success |-> (errors = {})]

NoReport == Report(0, 0, 0, 0, {})

\* MeetingService._get_all_upcoming_meetings
_get_all_upcoming_meetings(ms) == {i \in DOMAIN ms : ms[i].status = UPCOMING}

\* the loop of ensure_scheduled_jobs_for_existing_meetings over the upcoming
\* meetings S still to visit; failing is the set of ids for which
\* schedule_meeting_status_update raises.  Yields [js, rep].
\* faulty variant of the loop below: the first failure ends the pass
RECURSIVE RecoverLoopAborting(_, _, _, _, _, _)
RecoverLoopAborting(S, ms, js, rep, current_time, failing) ==
    IF S = {} THEN [js |-> js, rep |-> rep]
    ELSE LET i == First(S)
         IN  IF ms[i].end <= current_time
             THEN RecoverLoopAborting(S \ {i}, ms, js, [rep EXCEPT !.meetings_skipped = @ + 1],
                                      current_time, failing)
             ELSE IF scheduler /\ HasJob(js, i)
             THEN RecoverLoopAborting(S \ {i}, ms, js, [rep EXCEPT !.jobs_already_exist = @ + 1],
                                      current_time, failing)
             ELSE IF i \in failing
             THEN [js |-> js, rep |-> [rep EXCEPT !.errors = @ \cup {i}, !.success = FALSE]]
             ELSE RecoverLoopAborting(S \ {i}, ms,
                                      schedule_meeting_status_update(js, i, ms[i].end),
                                      [rep EXCEPT !.jobs_scheduled = @ + 1],
                                      current_time, failing)

\* the loop of ensure_scheduled_jobs_for_existing_meetings
RECURSIVE RecoverLoop(_, _, _, _, _, _)
RecoverLoop(S, ms, js, rep, current_time, failing) ==
    IF S = {} THEN [js |-> js, rep |-> rep]
    ELSE LET i == First(S)
         IN  IF ms[i].end <= current_time
             THEN RecoverLoop(S \ {i}, ms, js, [rep EXCEPT !.meetings_skipped = @ + 1],
                              current_time, failing)
             ELSE IF scheduler /\ HasJob(js, i)
             THEN RecoverLoop(S \ {i}, ms, js, [rep EXCEPT !.jobs_already_exist = @ + 1],
                              current_time, failing)
             ELSE IF i \in failing
             THEN RecoverLoop(S \ {i}, ms, js,
                              [rep EXCEPT !.errors = @ \cup {i}, !.success = FALSE],
                              current_time, failing)
             ELSE RecoverLoop(S \ {i}, ms, schedule_meeting_status_update(js, i, ms[i].end),
                              [rep EXCEPT !.jobs_scheduled = @ + 1], current_time, failing)

\* MeetingService.ensure_scheduled_jobs_for_existing_meetings
ensure_scheduled_jobs_for_existing_meetings(ms, js, current_time, failing) ==
    LET upcoming_meetings == _get_all_upcoming_meetings(ms)
    IN  IF upcoming_meetings = {} THEN [js |-> js, rep |-> NoReport]
        ELSE RecoverLoop(upcoming_meetings, ms, js,
                         Report(Cardinality(upcoming_meetings), 0, 0, 0, {}),
                         current_time, failing)

\* ------------------------------------------------------------------- actions
Last(op, hit, rep) == [op |-> op, hit |-> hit, rep |-> rep, failing |-> {}, rerun |-> FALSE]

Other == Last("other", FALSE, NoReport)

MeetingRows == [start : Times, end : Times, status : MeetingStatus, rec : {NoRec} \cup RecIds]

UpdateRequests == [start : Times \cup {None}, end : Times \cup {None},
                   status : MeetingStatus \cup {NoStatus}]

DeleteScopes == RecurrenceUpdateScope \cup {NoScope, "bogus"}

Allocated == 1..(nextId - 1)

Overdue(id) == Exists(meetings, id) /\ meetings[id].status = UPCOMING /\ meetings[id].end <= now

FutureUpcoming(ms, t) == {i \in DOMAIN ms : ms[i].status = UPCOMING /\ ms[i].end > t}

\* the meetings a recovery pass at time t has to arm
NeedArm(ms, js, t) == {i \in FutureUpcoming(ms, t) : ~HasJob(js, i)}

\* the clock advances; a running scheduler wakes up for a due job before it does
Tick ==
    /\ now < MaxTime
    /\ (running /\ scheduler) => \A j \in jobs : j.run > now
    /\ now' = now + 1
    /\ last' = IF last.op = "recover" /\ \A i \in DOMAIN meetings : meetings[i].end # now + 1
               THEN last ELSE Other
    /\ UNCHANGED <<meetings, recurrences, jobs, firing, running, scheduler, nextId, calls, memberships, patterns, reads>>

\* shutdown_event: SchedulerService.shutdown waits for the submitted callbacks
Shutdown ==
    /\ running
    /\ firing = {}
    /\ running' = FALSE
    /\ UNCHANGED <<meetings, recurrences, jobs, firing, now, scheduler, nextId, last, calls, memberships, patterns, reads>>

\* startup_event: SchedulerService.start
Start ==
    /\ ~running
    /\ running' = TRUE
    /\ UNCHANGED <<meetings, recurrences, jobs, firing, now, scheduler, nextId, last, calls, memberships, patterns, reads>>

\* the scheduler takes a due job out of the store: it submits the callback when
\* the job is on time and drops the job as missed when its run time has passed
Dispatch(j) ==
    /\ running
    /\ scheduler
    /\ j \in jobs
    /\ j.run <= now
    /\ jobs' = jobs \ {j}
    /\ firing' = IF j.run < now THEN firing ELSE firing \cup {j.id}
    /\ last' = Other
    /\ UNCHANGED <<meetings, recurrences, now, running, scheduler, nextId, calls, memberships, patterns, reads>>

\* the executor runs update_meeting_status(meeting_id)
OnFire(id) ==
    /\ running
    /\ id \in firing
    /\ meetings' = update_meeting_status(meetings, id, now)
    /\ firing' = firing \ {id}
    /\ last' = Last("on_fire", meetings' # meetings, NoReport)
    /\ UNCHANGED <<recurrences, jobs, now, running, scheduler, nextId, calls, memberships, patterns, reads>>

\* background_init_scheduler_jobs: the recovery pass; failing is the set of ids
\* for which arming raises during this pass (add_job is reached only with a scheduler)
Recover(failing) ==
    /\ running
    /\ failing \subseteq (IF scheduler THEN NeedArm(meetings, jobs, now) ELSE {})
    /\ enable_meeting_status_updates
    /\ LET r == ensure_scheduled_jobs_for_existing_meetings(meetings, jobs, now, failing)
       IN  /\ jobs' = r.js
           /\ last' = [Last("recover", jobs' # jobs, r.rep) EXCEPT
                          !.failing = failing,
                          !.rerun = (last.op = "recover" /\ last.rep.success)]
    /\ UNCHANGED <<meetings, recurrences, firing, now, running, scheduler, nextId, calls, memberships, patterns, reads>>

CreateMeeting(req) ==
    /\ running
    /\ req.start < req.end
    /\ req.rec \in {NoRec} \cup recurrences
    /\ LET st == create_meeting(meetings, jobs, nextId, req)
       IN  meetings' = st.ms /\ jobs' = st.js
    /\ nextId' = nextId + 1
    /\ last' = Other
    /\ UNCHANGED <<recurrences, firing, now, running, scheduler, calls, memberships, patterns, reads>>

UpdateMeeting(id, upd) ==
    /\ running
    /\ LET st == update_meeting(meetings, jobs, id, upd)
       IN  /\ \A i \in DOMAIN st.ms : st.ms[i].start < st.ms[i].end
           /\ meetings' = st.ms /\ jobs' = st.js
    /\ last' = Other
    /\ UNCHANGED <<recurrences, firing, now, running, scheduler, nextId, calls, memberships, patterns, reads>>

\* what a delete handler did: "cascade" when it removed more than one meeting;
\* hit: it removed a meeting that had a job
DeleteLast ==
    LET removed == (DOMAIN meetings) \ (DOMAIN meetings')
    IN  Last(IF Cardinality(removed) > 1 THEN "cascade" ELSE "delete",
             \E i \in removed : HasJob(jobs, i), NoReport)

DeleteMeeting(id, scope) ==
    /\ running
    /\ LET st == delete_meeting(meetings, jobs, id, scope)
       IN  meetings' = st.ms /\ jobs' = st.js
    /\ last' = DeleteLast
    /\ UNCHANGED <<recurrences, firing, now, running, scheduler, nextId, calls, memberships, patterns, reads>>

DeleteRecurringMeeting(id, scope) ==
    /\ running
    /\ LET st == delete_recurring_meeting(meetings, jobs, id, scope)
       IN  meetings' = st.ms /\ jobs' = st.js
    /\ last' = DeleteLast
    /\ UNCHANGED <<recurrences, firing, now, running, scheduler, nextId, calls, memberships, patterns, reads>>

\* RecurrenceService.create_recurrence stores the pattern; its meetings are
\* stored by create_meeting, one call for each
CreateRecurrence(r) ==
    /\ running
    /\ r \notin recurrences
    /\ recurrences' = recurrences \cup {r}
    /\ last' = Other
    /\ UNCHANGED <<meetings, jobs, firing, now, running, scheduler, nextId, calls, memberships, patterns, reads>>

DeleteRecurrence(r) ==
    /\ running
    /\ r \in recurrences
    /\ LET st == delete_recurrence(meetings, jobs, r)
       IN  meetings' = st.ms /\ jobs' = st.js
    /\ recurrences' = recurrences \ {r}
    /\ last' = DeleteLast
    /\ UNCHANGED <<firing, now, running, scheduler, nextId, calls, memberships, patterns, reads>>

\* ------------------------------------------------- the scheduler's life cycle
\* standalone meetings that start at instant 0, edited in end time and status
SchedRows == {row \in MeetingRows : row.start = 0 /\ row.rec = NoRec}

SchedUpdates == {upd \in UpdateRequests : upd.start = None}

NoCalls == <<>>

Init ==
    /\ meetings = <<>>
    /\ recurrences = {}
    /\ jobs = {}
    /\ firing = {}
    /\ now = 0
    /\ running = TRUE
    /\ scheduler \in BOOLEAN
    /\ nextId = 1
    /\ last = Other
    /\ calls = NoCalls
    /\ memberships = <<>>
    /\ patterns = <<>>
    /\ reads = <<>>

Next ==
    \/ Tick
    \/ Shutdown
    \/ Start
    \/ \E j \in jobs : Dispatch(j)
    \/ \E id \in Ids : OnFire(id)
    \/ \E failing \in SUBSET Ids : Recover(failing)
    \/ \E req \in SchedRows : nextId <= MaxMeetings /\ CreateMeeting(req)
    \/ \E id \in Allocated, upd \in SchedUpdates : UpdateMeeting(id, upd)
    \/ \E id \in Allocated : DeleteMeeting(id, NoScope)

Spec == Init /\ [][Next]_vars

TypeOK ==
    /\ DOMAIN meetings \subseteq Allocated
    /\ \A i \in DOMAIN meetings : meetings[i] \in MeetingRows
    /\ \A j \in jobs : j.run \in Times
    /\ firing \subseteq Allocated
    /\ now \in Times

\* ------------------------------------------------- restarts without user edits
\* meetings are created ahead of their end instant and are never edited or
\* deleted; the process is stopped and started again at any time
CreateAhead(req) ==
    /\ req.status = UPCOMING
    /\ req.end > now
    /\ nextId <= MaxMeetings
    /\ CreateMeeting(req)

RestartNext ==
    \/ Tick
    \/ Shutdown
    \/ Start
    \/ \E j \in jobs : Dispatch(j)
    \/ \E id \in Ids : OnFire(id)
    \/ Recover({})
    \/ \E req \in SchedRows : CreateAhead(req)

\* a stopped process is started again, a running scheduler takes its due jobs,
\* the executor runs the submitted callbacks and every start runs a recovery pass
RestartSpec ==
    /\ Init
    /\ [][RestartNext]_vars
    /\ WF_vars(Start)
    /\ SF_vars(\E j \in jobs : Dispatch(j))
    /\ SF_vars(\E id \in Ids : OnFire(id))
    /\ SF_vars(Recover({}))

\* ------------------------------------------------------- the store handlers
\* meetings of one clock unit, standalone or of a stored recurrence, created
\* in the order of their start times, edited and deleted while the clock stands
\* at 0; a scheduler is there
SeriesRows == {row \in MeetingRows : row.end = row.start + 1}

\* an edit of the status that leaves the end time out or sends it unchanged
StoreUpdate(id, upd) ==
    /\ Exists(meetings, id)
    /\ upd.end \in {None, meetings[id].end}
    /\ UpdateMeeting(id, upd)

StoreInit ==
    /\ meetings = <<>>
    /\ recurrences = {}
    /\ jobs = {}
    /\ firing = {}
    /\ now = 0
    /\ running = TRUE
    /\ scheduler = TRUE
    /\ nextId = 1
    /\ last = Other
    /\ calls = NoCalls
    /\ memberships = <<>>
    /\ patterns = <<>>
    /\ reads = <<>>

StoreNext ==
    \/ \E r \in RecIds : CreateRecurrence(r)
    \/ \E r \in RecIds : DeleteRecurrence(r)
    \/ \E req \in SeriesRows : nextId <= MaxSeries /\ req.start = nextId - 1 /\ CreateMeeting(req)
    \/ \E id \in Allocated, upd \in SchedUpdates : StoreUpdate(id, upd)
    \/ \E id \in Allocated, scope \in DeleteScopes : DeleteMeeting(id, scope)
    \/ \E id \in Allocated, scope \in DeleteScopes : DeleteRecurringMeeting(id, scope)
    \/ \E failing \in SUBSET Allocated : Recover(failing)

StoreSpec == StoreInit /\ [][StoreNext]_vars

\* ------------------------------------------------------------ the job store
\* calls of schedule_meeting_status_update and cancel_meeting_status_update in
\* any order; calls records, for each id, the last call and whether the id had
\* a job when the call was made
NoCall == [op |-> "none", t |-> None, had |-> FALSE]

Arm(id, t) ==
    /\ jobs' = schedule_meeting_status_update(jobs, id, t)
    /\ calls' = [calls EXCEPT ![id] = [op |-> "arm", t |-> t, had |-> HasJob(jobs, id)]]
    /\ UNCHANGED <<meetings, recurrences, firing, now, running, scheduler, nextId, last, memberships, patterns, reads>>

Cancel(id) ==
    /\ jobs' = cancel_meeting_status_update(jobs, id)
    /\ calls' = [calls EXCEPT ![id] = [op |-> "cancel", t |-> None, had |-> HasJob(jobs, id)]]
    /\ UNCHANGED <<meetings, recurrences, firing, now, running, scheduler, nextId, last, memberships, patterns, reads>>

ArmInit ==
    /\ meetings = <<>>
    /\ recurrences = {}
    /\ jobs = {}
    /\ firing = {}
    /\ now = 0
    /\ running = TRUE
    /\ scheduler = TRUE
    /\ nextId = 1
    /\ last = Other
    /\ calls = [id \in JobIds |-> NoCall]
    /\ memberships = <<>>
    /\ patterns = <<>>
    /\ reads = <<>>

ArmNext ==
    \/ \E id \in JobIds, t \in Times : Arm(id, t)
    \/ \E id \in JobIds : Cancel(id)

ArmSpec == ArmInit /\ [][ArmNext]_vars

\* -------------------------------------------------- recurrence materialization
\* datetime: a calendar date and a time of day, [year, month, day, tod]
WEEKLY == "WEEKLY"
BIWEEKLY == "BIWEEKLY"
MONTHLY == "MONTHLY"
RecurrenceFrequency == {WEEKLY, BIWEEKLY, MONTHLY}

IsLeap(y) == (y % 4 = 0 /\ y % 100 # 0) \/ y % 400 = 0

DaysInMonth(y, m) ==
    IF m = 2 THEN (IF IsLeap(y) THEN 29 ELSE 28)
    ELSE IF m \in {4, 6, 9, 11} THEN 30
    ELSE 31

\* d + timedelta(days=1)
NextDay(d) ==
    IF d.day < DaysInMonth(d.year, d.month) THEN [d EXCEPT !.day = @ + 1]
    ELSE IF d.month < 12 THEN [d EXCEPT !.month = @ + 1, !.day = 1]
    ELSE [d EXCEPT !.year = @ + 1, !.month = 1, !.day = 1]

\* d + timedelta(days=n)
RECURSIVE AddDays(_, _)
AddDays(d, n) == IF n = 0 THEN d ELSE AddDays(NextDay(d), n - 1)

\* a <= b on datetimes
DateTimeLE(a, b) ==
    \/ a.year < b.year
    \/ a.year = b.year /\ a.month < b.month
    \/ a.year = b.year /\ a.month = b.month /\ a.day < b.day
    \/ a.year = b.year /\ a.month = b.month /\ a.day = b.day /\ a.tod <= b.tod

\* datetime.combine(current_date.date(), t)
Combine(d, t) == [d EXCEPT !.tod = t]

\* what _generate_meeting_instances yields: the list it returns, or raised
\* when it ends with an exception
Returned(instances) == [raised |-> FALSE, instances |-> instances]

Raised == [raised |-> TRUE, instances |-> <<>>]

\* RecurrenceService._generate_meeting_instances: the loop from current_date on,
\* instances being the list built so far
RECURSIVE GenerateLoop(_, _, _, _, _, _)
GenerateLoop(frequency, start_time, end_time, current_date, end_date, instances) ==
    IF ~DateTimeLE(current_date, end_date) THEN Returned(instances)
    ELSE LET instance == [start |-> Combine(current_date, start_time),
                          end |-> Combine(current_date, end_time),
                          status |-> UPCOMING, paid |-> FALSE]
             appended == Append(instances, instance)
         IN  IF frequency = WEEKLY
             THEN GenerateLoop(frequency, start_time, end_time, AddDays(current_date, 7),
                               end_date, appended)
             ELSE IF frequency = BIWEEKLY
             THEN GenerateLoop(frequency, start_time, end_time, AddDays(current_date, 14),
                               end_date, appended)
             ELSE IF current_date.month = 12
             THEN GenerateLoop(frequency, start_time, end_time,
                               [current_date EXCEPT !.year = @ + 1, !.month = 1],
                               end_date, appended)
             ELSE IF current_date.day > DaysInMonth(current_date.year, current_date.month + 1)
             THEN Raised
             ELSE GenerateLoop(frequency, start_time, end_time,
                               [current_date EXCEPT !.month = @ + 1], end_date, appended)

_generate_meeting_instances(frequency, start_time, end_time, start_date, end_date) ==
    GenerateLoop(frequency, start_time, end_time, start_date, end_date, <<>>)

\* the requests: a pattern of any frequency with times of day start_time and
\* end_time, a start date in January or December of Year, and an end date up to
\* MaxSpan days after the start date or one day before it
Tods == 0..MaxTod

StartDays ==
    {[year |-> Year, month |-> m, day |-> d, tod |-> 0] :
         m \in {1, 12}, d \in 1..DaysInMonth(Year, 1)}

Ranges ==
    {[start_date |-> Combine(b, t1), end_date |-> Combine(AddDays(b, n), t2)] :
         b \in StartDays, n \in 0..MaxSpan, t1 \in Tods, t2 \in Tods}
    \cup {[start_date |-> Combine(NextDay(b), t1), end_date |-> Combine(b, t2)] :
              b \in StartDays, t1 \in Tods, t2 \in Tods}

NoOut == Returned(<<>>)

MatInit ==
    /\ meetings = <<>>
    /\ recurrences = {}
    /\ jobs = {}
    /\ firing = {}
    /\ now = 0
    /\ running = TRUE
    /\ scheduler = TRUE
    /\ nextId = 1
    /\ calls = NoCalls
    /\ memberships = <<>>
    /\ patterns = <<>>
    /\ reads = <<>>
    /\ \E frequency \in RecurrenceFrequency, range \in Ranges, start_time \in Tods, end_time \in Tods :
           last = [op |-> "request", frequency |-> frequency, start_time |-> start_time,
                   end_time |-> end_time, start_date |-> range.start_date,
                   end_date |-> range.end_date, out |-> NoOut]

Materialize ==
    /\ last.op = "request"
    /\ last' = [last EXCEPT !.op = "materialize",
                            !.out = _generate_meeting_instances(last.frequency, last.start_time,
                                                                last.end_time, last.start_date,
                                                                last.end_date)]
    /\ UNCHANGED <<meetings, recurrences, jobs, firing, now, running, scheduler, nextId, calls, memberships, patterns, reads>>

MatNext == Materialize

MatSpec == MatInit /\ [][MatNext]_vars

\* ------------------------------------------------------------- memberships
\* One client: every membership and every meeting is of the same client.  A
\* meeting row of this part has the fields of a draft and the fields rec and
\* mem (recurrence_id, membership_id).
MaxCredits == 5         \* the largest total_meetings of a membership
MaxQuotaMeetings == 5   \* meetings created in a behaviour of the membership handlers
MaxDrafts == 2          \* the most drafts a recurrence request materializes

\* membership_id is None
NoMem == 0

ACTIVE == "active"
EXPIRED == "expired"
MembershipStatus == {ACTIVE, EXPIRED, CANCELED}

\* MembershipService._get_active_membership_by_client: memberships[0] or None
_get_active_membership_by_client(mems) ==
    LET active == {m \in DOMAIN mems : mems[m].status = ACTIVE}
    IN  IF active = {} THEN NoMem ELSE First(active)

\* MembershipService.create_membership: refused when the client has an active membership
create_membership(mems, id, total_meetings) ==
    IF _get_active_membership_by_client(mems) # NoMem THEN mems
    ELSE Put(mems, id, [total_meetings |-> total_meetings, status |-> ACTIVE])

\* MembershipService.delete_membership: the membership is canceled, not removed
delete_membership(mems, id) ==
    IF ~Exists(mems, id) THEN mems
    ELSE [mems EXCEPT ![id].status = CANCELED]

\* the meetings linked to a membership that have a given status
LinkedWith(ms, m, status) == {i \in DOMAIN ms : ms[i].mem = m /\ ms[i].status = status}

\* MembershipService.get_membership_available_meetings: total credits minus the
\* linked done meetings minus the linked upcoming meetings
get_membership_available_meetings(ms, mems, m) ==
    LET completed == Cardinality(LinkedWith(ms, m, DONE))
        scheduled == Cardinality(LinkedWith(ms, m, UPCOMING))
    IN  [total_meetings |-> mems[m].total_meetings,
         completed_meetings |-> completed,
         scheduled_meetings |-> scheduled,
         available_meetings |-> mems[m].total_meetings - (completed + scheduled)]

\* MembershipService.get_available_active_membership: the client's active
\* membership when it has at least one available credit
get_available_active_membership(ms, mems) ==
    LET m == _get_active_membership_by_client(mems)
    IN  IF m = NoMem THEN NoMem
        ELSE IF get_membership_available_meetings(ms, mems, m).available_meetings >= 1 THEN m
        ELSE NoMem

\* MembershipService.check_membership_availability
check_membership_availability(ms, mems, m) ==
    /\ Exists(mems, m)
    /\ get_membership_available_meetings(ms, mems, m).available_meetings > 0

\* faulty variant: the cap is the membership's total
CapIsTotal(ms, mems, use_membership) ==
    LET active_membership == IF use_membership THEN get_available_active_membership(ms, mems)
                             ELSE NoMem
    IN  IF active_membership = NoMem THEN [membership_id |-> NoMem, max_meetings |-> None]
        ELSE [membership_id |-> active_membership,
              max_meetings |-> mems[active_membership].total_meetings]

\* create_recurrence_with_membership_check, the membership part: max_meetings
\* (None: no cap) and the membership the drafts are linked to
membership_info(ms, mems, use_membership) ==
    LET active_membership == IF use_membership THEN get_available_active_membership(ms, mems)
                             ELSE NoMem
    IN  IF active_membership = NoMem THEN [membership_id |-> NoMem, max_meetings |-> None]
        ELSE [membership_id |-> active_membership,
              max_meetings |->
                  get_membership_available_meetings(ms, mems, active_membership).available_meetings]

\* faulty variant: a linked meeting is stored without the availability check
CreateUnchecked(ms, mems, js, id, req) ==
    LET st == create_meeting(ms, js, id, req)
    IN  [ms |-> st.ms, js |-> st.js, raised |-> FALSE]

\* MeetingService.create_meeting for a request that may carry a membership_id:
\* ValueError when the membership has no available spot
create_meeting_checked(ms, mems, js, id, req) ==
    IF req.mem # NoMem /\ ~check_membership_availability(ms, mems, req.mem)
    THEN [ms |-> ms, js |-> js, raised |-> TRUE]
    ELSE LET st == create_meeting(ms, js, id, req)
         IN  [ms |-> st.ms, js |-> st.js, raised |-> FALSE]

\* all_instances[:max_meetings]
SliceTo(seq, n) ==
    IF n >= 0 THEN SubSeq(seq, 1, IF n < Len(seq) THEN n ELSE Len(seq))
    ELSE SubSeq(seq, 1, IF Len(seq) + n > 0 THEN Len(seq) + n ELSE 0)

\* the loop that stores instances_to_create from index i on (0-based as _i);
\* the meeting of index i gets the id first + i; an exception of create_meeting
\* ends the loop and the handler
RECURSIVE CreateInstances(_, _, _, _, _, _, _, _)
CreateInstances(ms, mems, js, instances, i, first, r, info) ==
    IF i >= Len(instances) THEN [ms |-> ms, js |-> js, raised |-> FALSE]
    ELSE LET instance == instances[i + 1]
             linked == info.membership_id # NoMem /\ i < info.max_meetings
             req == [start |-> instance.start, end |-> instance.end,
                     status |-> instance.status, paid |-> instance.paid, rec |-> r,
                     mem |-> IF linked THEN info.membership_id ELSE NoMem]
             st == create_meeting_checked(ms, mems, js, first + i, req)
         IN  IF st.raised THEN st
             ELSE CreateInstances(st.ms, mems, st.js, instances, i + 1, first, r, info)

\* RecurrenceService.create_recurrence_with_membership_check, after the pattern
\* was stored: [ms, js, raised, info, possible]
create_recurrence_with_membership_check(ms, mems, js, r, first, recurrence) ==
    LET info == membership_info(ms, mems, recurrence.use_membership)
        generated == _generate_meeting_instances(recurrence.frequency, recurrence.start_time,
                                                 recurrence.end_time, recurrence.start_date,
                                                 recurrence.end_date)
        all_instances == generated.instances
        instances_to_create ==
            IF info.membership_id # NoMem /\ Len(all_instances) > info.max_meetings
            THEN SliceTo(all_instances, info.max_meetings)
            ELSE all_instances
    IN  IF generated.raised
        THEN [ms |-> ms, js |-> js, raised |-> TRUE, info |-> info, possible |-> 0]
        ELSE LET st == CreateInstances(ms, mems, js, instances_to_create, 0, first, r, info)
             IN  [ms |-> st.ms, js |-> st.js, raised |-> st.raised, info |-> info,
                  possible |-> Len(all_instances)]

\* the requests: a weekly pattern from QuotaDay that materializes 1 to MaxDrafts
\* drafts, with or without use_membership, and a standalone meeting on QuotaDay
\* linked to a stored membership; one membership is created in a behaviour
QuotaDay == [year |-> Year, month |-> 1, day |-> 1, tod |-> 0]

RecurrenceRequests ==
    {[frequency |-> WEEKLY, start_time |-> 0, end_time |-> MaxTod, start_date |-> QuotaDay,
      end_date |-> AddDays(QuotaDay, 7 * (n - 1)), use_membership |-> u] :
         n \in 1..MaxDrafts, u \in BOOLEAN}

LinkedRequests(mems) ==
    {[start |-> QuotaDay, end |-> Combine(QuotaDay, MaxTod), status |-> s, paid |-> FALSE,
      rec |-> NoRec, mem |-> m] : s \in MeetingStatus, m \in DOMAIN mems}

CreateMembership(total_meetings) ==
    /\ memberships = <<>>
    /\ memberships' = create_membership(memberships, Cardinality(DOMAIN memberships) + 1,
                                        total_meetings)
    /\ last' = [op |-> "create_membership"]
    /\ UNCHANGED <<meetings, recurrences, jobs, firing, now, running, scheduler, nextId, calls, patterns, reads>>

DeleteMembership(m) ==
    /\ memberships' = delete_membership(memberships, m)
    /\ last' = [op |-> "delete_membership"]
    /\ UNCHANGED <<meetings, recurrences, jobs, firing, now, running, scheduler, nextId, calls, patterns, reads>>

\* create_recurrence_with_membership_check: the pattern is stored under a fresh
\* id, then its meetings
CreateRecurrenceWithMembership(recurrence) ==
    /\ nextId <= MaxQuotaMeetings
    /\ LET r == Cardinality(recurrences) + 1
           res == create_recurrence_with_membership_check(meetings, memberships, jobs, r,
                                                          nextId, recurrence)
       IN  /\ recurrences' = recurrences \cup {r}
           /\ meetings' = res.ms
           /\ jobs' = res.js
           /\ nextId' = nextId + Cardinality((DOMAIN res.ms) \ (DOMAIN meetings))
           /\ nextId' <= MaxQuotaMeetings + 1
           /\ last' = [op |-> "create_recurrence", info |-> res.info, raised |-> res.raised,
                       possible |-> res.possible,
                       meetings_created |-> Cardinality((DOMAIN res.ms) \ (DOMAIN meetings))]
    /\ UNCHANGED <<firing, now, running, scheduler, calls, memberships, patterns, reads>>

\* create_meeting for a standalone meeting linked to a membership
CreateLinkedMeeting(req) ==
    /\ nextId <= MaxQuotaMeetings
    /\ LET st == create_meeting_checked(meetings, memberships, jobs, nextId, req)
       IN  /\ meetings' = st.ms
           /\ jobs' = st.js
           /\ nextId' = IF st.raised THEN nextId ELSE nextId + 1
           /\ last' = [op |-> "create_meeting", raised |-> st.raised, mem |-> req.mem]
    /\ UNCHANGED <<recurrences, firing, now, running, scheduler, calls, memberships, patterns, reads>>

QuotaInit ==
    /\ meetings = <<>>
    /\ recurrences = {}
    /\ jobs = {}
    /\ firing = {}
    /\ now = 0
    /\ running = TRUE
    /\ scheduler = TRUE
    /\ nextId = 1
    /\ last = [op |-> "init"]
    /\ calls = NoCalls
    /\ memberships = <<>>
    /\ patterns = <<>>
    /\ reads = <<>>

QuotaNext ==
    \/ \E total_meetings \in 1..MaxCredits : CreateMembership(total_meetings)
    \/ \E m \in DOMAIN memberships : DeleteMembership(m)
    \/ \E recurrence \in RecurrenceRequests : CreateRecurrenceWithMembership(recurrence)
    \/ \E req \in LinkedRequests(memberships) : CreateLinkedMeeting(req)

QuotaSpec == QuotaInit /\ [][QuotaNext]_vars

\* ---------------------------------------------------------- scoped updates
SlotsPerDay == 2        \* instants of a day; one instant is longer than a minute
MaxScoped == 2          \* meetings created in a behaviour of the scoped updates

\* datetime.date(), datetime.time() and datetime.combine on integer instants
Date(t) == t \div SlotsPerDay

TimeOfDay(t) == t % SlotsPerDay

datetime_combine(date, time) == date * SlotsPerDay + time

\* "value or default" for a datetime field of a request (a datetime is never falsy)
Or(value, default) == IF value # None THEN value ELSE default

\* RecurrenceService.get_recurrence(...) is not None
get_recurrence(pats, r) == r \in DOMAIN pats

\* faulty variant: every meeting counts as being at the pattern's times
WithinAnyTime(row, pattern_start, pattern_end) == TRUE

\* abs(difference) < 60 seconds for the start and for the end of a meeting:
\* two instants less than a minute apart are the same instant
WithinMinute(row, pattern_start, pattern_end) ==
    row.start = pattern_start /\ row.end = pattern_end

\* the time offsets of a scoped update, relative to the pattern's times on the
\* target's date, or to the target's own times when the pattern is not stored
TimeOffsets(pats, row, upd) ==
    LET original_start == IF get_recurrence(pats, row.rec)
                          THEN datetime_combine(Date(row.start), pats[row.rec].start_time)
                          ELSE row.start
        original_end == IF get_recurrence(pats, row.rec)
                        THEN datetime_combine(Date(row.start), pats[row.rec].end_time)
                        ELSE row.end
        new_start == Or(upd.start, original_start)
        new_end == Or(upd.end, original_end)
    IN  [set |-> TRUE, new_start |-> new_start, new_end |-> new_end,
         start |-> new_start - original_start, end |-> new_end - original_end]

\* time_offset_start and time_offset_end are None
NoOffsets == [set |-> FALSE, new_start |-> None, new_end |-> None, start |-> 0, end |-> 0]

\* the request built for a sibling: the fields of the edit without its scope,
\* and the sibling's times moved by the offsets when there are offsets
SiblingUpdate(row, upd, off) ==
    [start |-> IF off.set THEN row.start + off.start ELSE upd.start,
     end |-> IF off.set THEN row.end + off.end ELSE upd.end,
     status |-> upd.status, scope |-> NoScope]

\* a query result as a list, in the order of the ids
RECURSIVE InIdOrder(_)
InIdOrder(S) == IF S = {} THEN <<>> ELSE <<First(S)>> \o InIdOrder(S \ {First(S)})

\* list.sort(key=lambda m: m.start_time) of a query result (the sort is stable)
RECURSIVE SortByStart(_, _)
SortByStart(ms, S) ==
    IF S = {} THEN <<>>
    ELSE LET i == CHOOSE x \in S : \A y \in S : ms[x].start < ms[y].start
                                                \/ (ms[x].start = ms[y].start /\ x <= y)
         IN  <<i>> \o SortByStart(ms, S \ {i})

\* a loop of _update_single_meeting over a list of meetings; each meeting gets
\* the request that was built for it
RECURSIVE UpdateEach(_, _, _, _)
UpdateEach(ms, js, order, requests) ==
    IF order = <<>> THEN Stores(ms, js)
    ELSE LET st == _update_single_meeting(ms, js, Head(order), requests[Head(order)])
         IN  UpdateEach(st.ms, st.js, Tail(order), requests)

\* What a scoped update leaves: the stores, the patterns, the list of the
\* meetings it returns, and whether it ended with ValueError.
Outcome(st, pats, result, raised) ==
    [ms |-> st.ms, js |-> st.js, pats |-> pats, result |-> result, raised |-> raised]

\* MeetingService._update_recurring_meeting(user_id, meeting, update_data) for a
\* stored meeting of a recurrence and a scope of the enumeration; the lists of
\* siblings are read from the store when the code reads them
_update_recurring_meeting(ms, js, pats, id, upd) ==
    LET meeting == ms[id]
        off == IF upd.start # None \/ upd.end # None
               THEN TimeOffsets(pats, meeting, upd) ELSE NoOffsets
        original_pattern_start ==
            datetime_combine(Date(meeting.start), pats[meeting.rec].start_time)
        original_pattern_end ==
            datetime_combine(Date(meeting.start), pats[meeting.rec].end_time)
    IN  IF upd.scope = THIS_MEETING_ONLY THEN _update_single_meeting(ms, js, id, upd)
        ELSE IF upd.scope = THIS_AND_FUTURE
        THEN LET updated == _update_single_meeting(ms, js, id, upd)
                 future_meetings ==
                     {i \in get_recurring_meetings(updated.ms, meeting.rec) :
                          /\ updated.ms[i].status = UPCOMING
                          /\ updated.ms[i].start > meeting.start
                          /\ WithinMinute(updated.ms[i], original_pattern_start,
                                          original_pattern_end)}
             IN  IF get_recurrence(pats, meeting.rec)
                 THEN UpdateEach(updated.ms, updated.js, InIdOrder(future_meetings),
                                 [i \in future_meetings |->
                                      SiblingUpdate(updated.ms[i], upd, off)])
                 ELSE updated
        ELSE IF upd.scope = ALL_MEETINGS
        THEN LET all_meetings ==
                     {i \in get_recurring_meetings(ms, meeting.rec) :
                          WithinMinute(ms[i], original_pattern_start, original_pattern_end)}
                 siblings ==
                     IF get_recurrence(pats, meeting.rec)
                     THEN UpdateEach(ms, js, InIdOrder(all_meetings),
                                     [i \in all_meetings |-> SiblingUpdate(ms[i], upd, off)])
                     ELSE Stores(ms, js)
             IN  _update_single_meeting(siblings.ms, siblings.js, id, upd)
        ELSE _update_single_meeting(ms, js, id, upd)

\* MeetingService.update_meeting(user_id, meeting_id, meeting) for a request with
\* or without update_scope; it returns the target
update_meeting_scoped(ms, js, pats, id, upd) ==
    IF ~Exists(ms, id) THEN Outcome(Stores(ms, js), pats, <<>>, TRUE)
    ELSE IF ms[id].rec # NoRec /\ upd.scope # NoScope
    THEN Outcome(_update_recurring_meeting(ms, js, pats, id, upd), pats, <<id>>, FALSE)
    ELSE Outcome(_update_single_meeting(ms, js, id, upd), pats, <<id>>, FALSE)

\* the loop of meeting_service.update_meeting over the meetings to update
RECURSIVE UpdateEachMeeting(_, _, _, _)
UpdateEachMeeting(ms, js, order, requests) ==
    IF order = <<>> THEN Stores(ms, js)
    ELSE LET st == update_meeting(ms, js, Head(order), requests[Head(order)])
         IN  UpdateEachMeeting(st.ms, st.js, Tail(order), requests)

\* the meetings of a list for which a predicate holds, in the order of the list
RECURSIVE Filter(_, _)
Filter(order, keep) ==
    IF order = <<>> THEN <<>>
    ELSE IF Head(order) \in keep THEN <<Head(order)>> \o Filter(Tail(order), keep)
    ELSE Filter(Tail(order), keep)

\* faulty variant: scope "future" does not leave out the earlier meetings
UpdateScopeUnfiltered(ms, js, pats, id, upd, scope) ==
    LET original_meeting == ms[id]
        all_meetings == get_recurring_meetings(ms, original_meeting.rec)
        meetings_to_update == all_meetings
        recurrence == get_recurrence(pats, original_meeting.rec)
        off == TimeOffsets(pats, original_meeting, upd)
        should_update ==
            {i \in meetings_to_update :
                 (recurrence /\ (upd.start # None \/ upd.end # None))
                     => WithinMinute(ms[i],
                            datetime_combine(Date(ms[i].start),
                                             pats[original_meeting.rec].start_time),
                            datetime_combine(Date(ms[i].start),
                                             pats[original_meeting.rec].end_time))}
        meeting_update ==
            [i \in should_update |->
                 IF i = id
                 THEN [start |-> off.new_start, end |-> off.new_end,
                       status |-> upd.status, scope |-> NoScope]
                 ELSE SiblingUpdate(ms[i], upd, off)]
        updated_meetings == Filter(SortByStart(ms, all_meetings), should_update)
    IN  Outcome(UpdateEachMeeting(ms, js, updated_meetings, meeting_update), pats,
                updated_meetings, FALSE)

\* the part of _update_recurring_meetings_with_scope before its update loop:
\* the meetings it will update, in the order of the loop, and the request it
\* builds for each of them
MeetingUpdates(ms, pats, id, upd, scope) ==
    LET original_meeting == ms[id]
        all_meetings == get_recurring_meetings(ms, original_meeting.rec)
        meetings_to_update ==
            IF scope = "future"
            THEN {i \in all_meetings : ms[i].start >= original_meeting.start}
            ELSE all_meetings
        recurrence == get_recurrence(pats, original_meeting.rec)
        off == TimeOffsets(pats, original_meeting, upd)
        should_update ==
            {i \in meetings_to_update :
                 (recurrence /\ (upd.start # None \/ upd.end # None))
                     => WithinMinute(ms[i],
                            datetime_combine(Date(ms[i].start),
                                             pats[original_meeting.rec].start_time),
                            datetime_combine(Date(ms[i].start),
                                             pats[original_meeting.rec].end_time))}
        meeting_update ==
            [i \in should_update |->
                 IF i = id
                 THEN [start |-> off.new_start, end |-> off.new_end,
                       status |-> upd.status, scope |-> NoScope]
                 ELSE SiblingUpdate(ms[i], upd, off)]
    IN  [order |-> Filter(SortByStart(ms, all_meetings), should_update),
         requests |-> meeting_update]

\* RecurrenceService._update_recurring_meetings_with_scope(user_id,
\* original_meeting, update_data, scope) for scope "future" or "all"
_update_recurring_meetings_with_scope(ms, js, pats, id, upd, scope) ==
    LET plan == MeetingUpdates(ms, pats, id, upd, scope)
    IN  Outcome(UpdateEachMeeting(ms, js, plan.order, plan.requests), pats,
                plan.order, FALSE)

\* RecurrenceService._update_recurrence_pattern: the pattern's times of day are
\* replaced by those of the request's times; a failure is swallowed by the caller
_update_recurrence_pattern(pats, r, upd) ==
    IF ~get_recurrence(pats, r) THEN pats
    ELSE [pats EXCEPT ![r].start_time = IF upd.start # None THEN TimeOfDay(upd.start) ELSE @,
                      ![r].end_time = IF upd.end # None THEN TimeOfDay(upd.end) ELSE @]

\* faulty variant: this_meeting_only is handled like all_meetings
UpdateOnlyAsAll(ms, js, pats, id, upd) ==
    IF ~Exists(ms, id) THEN Outcome(Stores(ms, js), pats, <<>>, TRUE)
    ELSE IF ms[id].rec = NoRec THEN update_meeting_scoped(ms, js, pats, id, upd)
    ELSE _update_recurring_meetings_with_scope(ms, js, pats, id, upd, "all")

\* RecurrenceService.update_recurring_meeting(user_id, meeting_id, update_data)
update_recurring_meeting(ms, js, pats, id, upd) ==
    IF ~Exists(ms, id) THEN Outcome(Stores(ms, js), pats, <<>>, TRUE)
    ELSE IF ms[id].rec = NoRec THEN update_meeting_scoped(ms, js, pats, id, upd)
    ELSE IF upd.scope = THIS_MEETING_ONLY THEN update_meeting_scoped(ms, js, pats, id, upd)
    ELSE IF upd.scope \in {THIS_AND_FUTURE, ALL_MEETINGS}
    THEN LET out == _update_recurring_meetings_with_scope(
                        ms, js, pats, id, upd,
                        IF upd.scope = THIS_AND_FUTURE THEN "future" ELSE "all")
         IN  IF upd.start # None \/ upd.end # None
             THEN [out EXCEPT !.pats = _update_recurrence_pattern(pats, ms[id].rec, upd)]
             ELSE out
    ELSE update_meeting_scoped(ms, js, pats, id, upd)

\* ------------------------------------------------ the scoped update handlers
\* One pattern.  Meetings are created on the day of their id, at the times of
\* day of the pattern or standalone; a plain edit moves a meeting of the pattern
\* within its day (its end may be the first instant of the next day); then one
\* scoped update is made, through either service, with every scope, and the
\* behaviour ends.
PatternRows ==
    {[start_time |-> a, end_time |-> b] : a \in 0..(SlotsPerDay - 1), b \in 1..(SlotsPerDay - 1)}

\* the pairs of a start and an end on the date of instant t
DayTimes(t) ==
    {[start |-> datetime_combine(Date(t), a), end |-> datetime_combine(Date(t), b)] :
         a \in 0..(SlotsPerDay - 1), b \in 1..SlotsPerDay}

\* an edit sends both times or none
ScopedRequests(row) ==
    {[start |-> t.start, end |-> t.end, status |-> s, scope |-> scope] :
         t \in {x \in DayTimes(row.start) : x.start < x.end}
                   \cup {[start |-> None, end |-> None]},
         s \in {NoStatus, DONE}, scope \in RecurrenceUpdateScope \cup {NoScope}}

\* a plain edit sends the times only and no scope
PlainRequests(row) ==
    {upd \in ScopedRequests(row) :
         upd.start # None /\ upd.status = NoStatus /\ upd.scope = NoScope}

ScopedOps == {"update_recurring_meeting", "update_meeting"}

\* meeting i of the store is at the times of its pattern on its own date
AtPatternTimes(ms, pats, i) ==
    /\ ms[i].start = datetime_combine(Date(ms[i].start), pats[ms[i].rec].start_time)
    /\ ms[i].end = datetime_combine(Date(ms[i].start), pats[ms[i].rec].end_time)

\* what a scoped update did: its target and request, the list it returned,
\* whether it ended with ValueError, the meetings whose row it changed, the
\* meetings of the target's pattern that started before the target, and the
\* meetings of the pattern that were not at the pattern's times
ScopedLast(op, id, upd, out) ==
    [op |-> op, id |-> id, upd |-> upd,
     result |-> out.result, raised |-> out.raised,
     modified |-> {i \in DOMAIN meetings : out.ms[i] # meetings[i]},
     earlier |-> IF Exists(meetings, id) /\ meetings[id].rec # NoRec
                 THEN {i \in get_recurring_meetings(meetings, meetings[id].rec) :
                           meetings[i].start < meetings[id].start}
                 ELSE {},
     drifted |-> IF Exists(meetings, id) /\ get_recurrence(patterns, meetings[id].rec)
                 THEN {i \in get_recurring_meetings(meetings, meetings[id].rec) :
                           ~AtPatternTimes(meetings, patterns, i)}
                 ELSE {}]

\* RecurrenceService.create_recurrence stores the pattern under a fresh id
CreatePattern(r, row) ==
    /\ last.op \notin ScopedOps
    /\ recurrences = {}
    /\ row.start_time < row.end_time
    /\ recurrences' = recurrences \cup {r}
    /\ patterns' = Put(patterns, r, row)
    /\ last' = [op |-> "create_recurrence"]
    /\ UNCHANGED <<meetings, jobs, firing, now, running, scheduler, nextId, calls, memberships, reads>>

\* create_meeting for an upcoming meeting on the day of its id
CreateScoped(rec) ==
    /\ last.op \notin ScopedOps
    /\ nextId <= MaxScoped
    /\ rec \in {NoRec} \cup recurrences
    /\ LET start_time == IF rec # NoRec THEN patterns[rec].start_time ELSE 0
           end_time == IF rec # NoRec THEN patterns[rec].end_time ELSE 1
           st == create_meeting(meetings, jobs, nextId,
                                [start |-> datetime_combine(nextId, start_time),
                                 end |-> datetime_combine(nextId, end_time),
                                 status |-> UPCOMING, rec |-> rec])
       IN  meetings' = st.ms /\ jobs' = st.js
    /\ nextId' = nextId + 1
    /\ last' = [op |-> "create_meeting"]
    /\ UNCHANGED <<recurrences, firing, now, running, scheduler, calls, memberships, patterns, reads>>

\* PUT /meetings/{meeting_id} without update_scope, for a meeting of the pattern
PlainUpdate(id, upd) ==
    /\ last.op \notin ScopedOps
    /\ meetings[id].rec # NoRec
    /\ LET out == update_meeting_scoped(meetings, jobs, patterns, id, upd)
       IN  meetings' = out.ms /\ jobs' = out.js
    /\ last' = [op |-> "plain_update"]
    /\ UNCHANGED <<recurrences, firing, now, running, scheduler, nextId, calls, memberships, patterns, reads>>

\* PUT /recurrences/meetings/{meeting_id}
UpdateRecurringMeeting(id, upd) ==
    /\ last.op \notin ScopedOps
    /\ LET out == update_recurring_meeting(meetings, jobs, patterns, id, upd)
       IN  /\ meetings' = out.ms
           /\ jobs' = out.js
           /\ patterns' = out.pats
           /\ last' = ScopedLast("update_recurring_meeting", id, upd, out)
    /\ UNCHANGED <<recurrences, firing, now, running, scheduler, nextId, calls, memberships, reads>>

\* PUT /meetings/{meeting_id}
UpdateMeetingScoped(id, upd) ==
    /\ last.op \notin ScopedOps
    /\ LET out == update_meeting_scoped(meetings, jobs, patterns, id, upd)
       IN  /\ meetings' = out.ms
           /\ jobs' = out.js
           /\ patterns' = out.pats
           /\ last' = ScopedLast("update_meeting", id, upd, out)
    /\ UNCHANGED <<recurrences, firing, now, running, scheduler, nextId, calls, memberships, reads>>

ScopeInit ==
    /\ meetings = <<>>
    /\ recurrences = {}
    /\ jobs = {}
    /\ firing = {}
    /\ now = 0
    /\ running = TRUE
    /\ scheduler = TRUE
    /\ nextId = 1
    /\ last = [op |-> "init"]
    /\ calls = NoCalls
    /\ memberships = <<>>
    /\ patterns = <<>>
    /\ reads = <<>>

ScopeNext ==
    \/ \E row \in PatternRows : CreatePattern(Cardinality(recurrences) + 1, row)
    \/ \E rec \in {NoRec} \cup recurrences : CreateScoped(rec)
    \/ \E id \in Allocated : \E upd \in PlainRequests(meetings[id]) : PlainUpdate(id, upd)
    \/ \E id \in Allocated : \E upd \in ScopedRequests(meetings[id]) :
           UpdateRecurringMeeting(id, upd)
    \/ \E id \in Allocated : \E upd \in ScopedRequests(meetings[id]) :
           UpdateMeetingScoped(id, upd)

ScopeSpec == ScopeInit /\ [][ScopeNext]_vars

ScopeTypeOK == DOMAIN patterns = recurrences /\ DOMAIN meetings = Allocated

\* ------------------------------------- scoped updates without a stored pattern
\* No pattern is stored.  Meetings are created with the recurrence_id of a
\* pattern that the recurrence store does not hold (create_meeting stores the
\* recurrence_id it is given), moved by plain edits, and then one scoped update
\* is made for a stored or an absent meeting id.
OrphanRec == 1

ScopedIds == 1..MaxScoped

\* the requests made for an id: times on the date of the stored meeting, or on
\* the day of the id when no meeting is stored under it
RequestsFor(id) ==
    ScopedRequests(IF Exists(meetings, id) THEN meetings[id]
                   ELSE [start |-> datetime_combine(id, 0)])

\* create_meeting with a recurrence_id that get_recurrence does not find
CreateOrphan ==
    /\ last.op \notin ScopedOps
    /\ nextId <= MaxScoped
    /\ LET st == create_meeting(meetings, jobs, nextId,
                                [start |-> datetime_combine(nextId, 0),
                                 end |-> datetime_combine(nextId, 1),
                                 status |-> UPCOMING, rec |-> OrphanRec])
       IN  meetings' = st.ms /\ jobs' = st.js
    /\ nextId' = nextId + 1
    /\ last' = [op |-> "create_meeting"]
    /\ UNCHANGED <<recurrences, firing, now, running, scheduler, calls, memberships, patterns, reads>>

\* DELETE /meetings/{meeting_id} without delete_scope
DeleteOrphan(id) ==
    /\ last.op \notin ScopedOps
    /\ Exists(meetings, id)
    /\ LET st == delete_meeting(meetings, jobs, id, NoScope)
       IN  meetings' = st.ms /\ jobs' = st.js
    /\ last' = [op |-> "delete_meeting"]
    /\ UNCHANGED <<recurrences, firing, now, running, scheduler, nextId, calls, memberships, patterns, reads>>

OrphanNext ==
    \/ CreateOrphan
    \/ \E id \in DOMAIN meetings : DeleteOrphan(id)
    \/ \E id \in DOMAIN meetings : \E upd \in PlainRequests(meetings[id]) : PlainUpdate(id, upd)
    \/ \E id \in ScopedIds : \E upd \in RequestsFor(id) : UpdateRecurringMeeting(id, upd)
    \/ \E id \in ScopedIds : \E upd \in RequestsFor(id) : UpdateMeetingScoped(id, upd)

OrphanSpec == ScopeInit /\ [][OrphanNext]_vars

\* ------------------------------------------------- times and prices of a meeting
\* PriceSpec: the handlers that write the times, the hourly rate and the
\* total price of one meeting.  Its rows and requests carry price_per_hour, and
\* its rows price_total, next to the fields of the other specifications; the
\* unit of an instant is the hour.
MaxInstant == 2       \* the instants of a request are 0..MaxInstant
MaxRate == 2          \* the hourly rates of a request are 0..MaxRate

Instants == 0..MaxInstant
Rates == 0..MaxRate

\* "value or default" of a float: None and 0.0 are both falsy
OrFloat(value, default) == IF value # None /\ value # 0 THEN value ELSE default

\* duration_hours * price_per_hour
price_total(start_time, end_time, price_per_hour) == (end_time - start_time) * price_per_hour

\* MeetingService.create_meeting with the price of the row
create_priced_meeting(ms, js, id, req) ==
    create_meeting(ms, js, id,
        [start |-> req.start, end |-> req.end, status |-> req.status, rec |-> req.rec,
         price_per_hour |-> req.price_per_hour,
         price_total |-> price_total(req.start, req.end, req.price_per_hour)])

\* the price fields _update_single_meeting writes: the rate when the request
\* carries one, and the total, from the request's values or else the current
\* row's, when the request carries a time or a rate
PriceFields(current_meeting, stored, update_data) ==
    LET start_time == Or(update_data.start, current_meeting.start)
        end_time == Or(update_data.end, current_meeting.end)
        price_per_hour == OrFloat(update_data.price_per_hour, current_meeting.price_per_hour)
    IN  [stored EXCEPT
            !.price_per_hour = IF update_data.price_per_hour # None
                               THEN update_data.price_per_hour ELSE @,
            !.price_total = IF \/ update_data.start # None
                               \/ update_data.end # None
                               \/ update_data.price_per_hour # None
                            THEN price_total(start_time, end_time, price_per_hour)
                            ELSE @]

\* MeetingService.update_meeting, without update_scope, with the price of the row
update_priced_meeting(ms, js, id, upd) ==
    IF ~Exists(ms, id) THEN Stores(ms, js)
    ELSE LET st == update_meeting(ms, js, id, upd)
         IN  Stores([st.ms EXCEPT ![id] = PriceFields(ms[id], @, upd)], st.js)

\* RecurrenceService.create_recurrence_exception: an update of the meeting with
\* the modified times, and with the modified rate when it is truthy
create_recurrence_exception(ms, js, r, id, modified_start, modified_end, modified_price) ==
    IF ~Exists(ms, id) \/ ms[id].rec # r THEN Stores(ms, js)
    ELSE update_priced_meeting(ms, js, id,
             [start |-> modified_start, end |-> modified_end,
              price_per_hour |-> OrFloat(modified_price, None),
              status |-> NoStatus, scope |-> NoScope])

\* MeetingCreateRequest: any two instants and any rate >= 0
PricedCreateRequests ==
    [start : Instants, end : Instants, price_per_hour : Rates,
     status : {UPCOMING}, rec : {NoRec, OrphanRec}]

\* MeetingUpdateRequest: every subset of start, end and rate
PricedUpdateRequests ==
    [start : Instants \cup {None}, end : Instants \cup {None},
     price_per_hour : Rates \cup {None}, status : {NoStatus}, scope : {NoScope}]

\* POST /meetings
CreatePriced(req) ==
    /\ meetings = <<>>
    /\ LET st == create_priced_meeting(meetings, jobs, nextId, req)
       IN  meetings' = st.ms /\ jobs' = st.js
    /\ nextId' = nextId + 1
    /\ last' = [op |-> "create_meeting", id |-> nextId, upd |-> req]
    /\ UNCHANGED <<recurrences, firing, now, running, scheduler, calls, memberships, patterns, reads>>

\* the creation loop of create_recurrence_with_membership_check for one draft:
\* the membership's price replaces the draft's rate before create_meeting
CreateStamped(req, price_per_meeting) ==
    /\ meetings = <<>>
    /\ req.rec # NoRec
    /\ LET instance == [req EXCEPT !.price_per_hour = price_per_meeting]
           st == create_priced_meeting(meetings, jobs, nextId, instance)
       IN  meetings' = st.ms /\ jobs' = st.js
    /\ nextId' = nextId + 1
    /\ last' = [op |-> "create_recurrence", id |-> nextId, upd |-> req]
    /\ UNCHANGED <<recurrences, firing, now, running, scheduler, calls, memberships, patterns, reads>>

\* PUT /meetings/{meeting_id} without update_scope
UpdatePriced(id, upd) ==
    /\ Exists(meetings, id)
    /\ LET st == update_priced_meeting(meetings, jobs, id, upd)
       IN  meetings' = st.ms /\ jobs' = st.js
    /\ last' = [op |-> "update_meeting", id |-> id, upd |-> upd]
    /\ UNCHANGED <<recurrences, firing, now, running, scheduler, nextId, calls, memberships, patterns, reads>>

\* POST /recurrences/{recurrence_id}/exceptions
CreateException(id, start_time, end_time, price_per_hour) ==
    /\ Exists(meetings, id)
    /\ meetings[id].rec # NoRec
    /\ LET st == create_recurrence_exception(meetings, jobs, meetings[id].rec, id,
                                             start_time, end_time, price_per_hour)
       IN  meetings' = st.ms /\ jobs' = st.js
    /\ last' = [op |-> "create_recurrence_exception", id |-> id,
                upd |-> [start |-> start_time, end |-> end_time, price_per_hour |-> price_per_hour]]
    /\ UNCHANGED <<recurrences, firing, now, running, scheduler, nextId, calls, memberships, patterns, reads>>

PriceNext ==
    \/ \E req \in PricedCreateRequests : CreatePriced(req)
    \/ \E req \in PricedCreateRequests : \E p \in Rates : CreateStamped(req, p)
    \/ \E id \in DOMAIN meetings : \E upd \in PricedUpdateRequests : UpdatePriced(id, upd)
    \/ \E id \in DOMAIN meetings : \E s, e \in Instants : \E p \in Rates \cup {None} :
           CreateException(id, s, e, p)

PriceSpec == ScopeInit /\ [][PriceNext]_vars

\* ------------------------------------------- scoped updates with store failures
\* FaultSpec: one pattern, meetings at its times, then one this_and_future or
\* all_meetings update through RecurrenceService during which storage.update
\* fails for the meetings of a set, and possibly for the pattern.

\* the loop of meeting_service.update_meeting when storage.update fails for the
\* meetings of failing: update_meeting raises for the first of them and the
\* "except Exception: raise" of the loop passes the exception on
RECURSIVE UpdateUntilFailure(_, _, _, _, _, _)
UpdateUntilFailure(ms, js, order, requests, failing, updated_meetings) ==
    IF order = <<>>
    THEN [ms |-> ms, js |-> js, updated_meetings |-> updated_meetings, raised |-> FALSE]
    ELSE IF Head(order) \in failing
    THEN [ms |-> ms, js |-> js, updated_meetings |-> updated_meetings, raised |-> TRUE]
    ELSE LET st == update_meeting(ms, js, Head(order), requests[Head(order)])
         IN  UpdateUntilFailure(st.ms, st.js, Tail(order), requests, failing,
                                Append(updated_meetings, Head(order)))

\* RecurrenceService.update_recurring_meeting for scope this_and_future or
\* all_meetings on a meeting of a pattern, when storage.update fails for the
\* meetings of failing and, if pattern_fails, for the pattern: an exception of
\* the loop leaves the handler, one of _update_recurrence_pattern is dropped
update_recurring_meeting_with_failures(ms, js, pats, id, upd, failing, pattern_fails) ==
    LET plan == MeetingUpdates(ms, pats, id, upd,
                               IF upd.scope = THIS_AND_FUTURE THEN "future" ELSE "all")
        run == UpdateUntilFailure(ms, js, plan.order, plan.requests, failing, <<>>)
    IN  IF run.raised
        THEN Outcome(Stores(run.ms, run.js), pats, <<>>, TRUE)
        ELSE Outcome(Stores(run.ms, run.js),
                     IF (upd.start # None \/ upd.end # None) /\ ~pattern_fails
                     THEN _update_recurrence_pattern(pats, ms[id].rec, upd)
                     ELSE pats,
                     run.updated_meetings, FALSE)

\* PUT /recurrences/meetings/{meeting_id} with failures of the store
UpdateWithFailures(id, upd, failing, pattern_fails) ==
    /\ last.op \notin ScopedOps
    /\ Exists(meetings, id)
    /\ meetings[id].rec # NoRec
    /\ upd.scope \in {THIS_AND_FUTURE, ALL_MEETINGS}
    /\ LET out == update_recurring_meeting_with_failures(meetings, jobs, patterns, id, upd,
                                                         failing, pattern_fails)
           plan == MeetingUpdates(meetings, patterns, id, upd,
                                  IF upd.scope = THIS_AND_FUTURE THEN "future" ELSE "all")
       IN  /\ meetings' = out.ms
           /\ jobs' = out.js
           /\ patterns' = out.pats
           /\ last' = [op |-> "update_recurring_meeting", id |-> id, upd |-> upd,
                       result |-> out.result, raised |-> out.raised,
                       modified |-> {i \in DOMAIN meetings : out.ms[i] # meetings[i]},
                       requested |-> plan.requests,
                       failing |-> failing, pattern_fails |-> pattern_fails]
    /\ UNCHANGED <<recurrences, firing, now, running, scheduler, nextId, calls, memberships, reads>>

FaultNext ==
    \/ \E row \in PatternRows : CreatePattern(Cardinality(recurrences) + 1, row)
    \/ \E rec \in recurrences : CreateScoped(rec)
    \/ \E id \in DOMAIN meetings : \E upd \in ScopedRequests(meetings[id]) :
           \E failing \in SUBSET (DOMAIN meetings) : \E pattern_fails \in BOOLEAN :
               UpdateWithFailures(id, upd, failing, pattern_fails)

FaultSpec == ScopeInit /\ [][FaultNext]_vars

\* ------------------------------------- the fire callback beside the user edits
\* RaceSpec: update_meeting_status is a plain function, which the executor of
\* AsyncIOScheduler runs on a worker thread, with a session of its own, while
\* the handlers run on the event loop.  Its query and its commit are two steps
\* here, and a handler can run between them.

\* the callback's query and its checks, at current_time = now: it ends when the
\* row is absent, has not ended or is not upcoming, and else goes on with the
\* row it read
FireRead(id) ==
    /\ running
    /\ id \in firing
    /\ ~Exists(reads, id)
    /\ IF Exists(meetings, id) /\ meetings[id].end <= now /\ meetings[id].status = UPCOMING
       THEN /\ reads' = Put(reads, id, meetings[id])
            /\ firing' = firing
       ELSE /\ reads' = reads
            /\ firing' = firing \ {id}
    /\ last' = Last("on_fire_read", FALSE, NoReport)
    /\ UNCHANGED <<meetings, recurrences, jobs, now, running, scheduler, nextId, calls, memberships, patterns>>

\* meeting.status = "done"; db.commit(): the session writes the changed column
\* of the row with this id, whatever the row holds by now (the update of a row
\* that is gone raises, and the exception is logged)
FireCommit(id) ==
    /\ running
    /\ Exists(reads, id)
    /\ meetings' = IF Exists(meetings, id) THEN [meetings EXCEPT ![id].status = DONE]
                   ELSE meetings
    /\ reads' = Remove(reads, id)
    /\ firing' = firing \ {id}
    /\ last' = Last("on_fire", meetings' # meetings, NoReport)
    /\ UNCHANGED <<recurrences, jobs, now, running, scheduler, nextId, calls, memberships, patterns>>

RaceNext ==
    \/ Tick
    \/ \E j \in jobs : Dispatch(j)
    \/ \E id \in Ids : FireRead(id)
    \/ \E id \in Ids : FireCommit(id)
    \/ \E req \in SchedRows : nextId <= MaxMeetings /\ CreateMeeting(req)
    \/ \E id \in Allocated, upd \in SchedUpdates : UpdateMeeting(id, upd)
    \/ \E id \in Allocated : DeleteMeeting(id, NoScope)

RaceSpec == ScopeInit /\ [][RaceNext]_vars

\* ------------------------------------------------ scoped operations and owners
\* OwnerSpec: at most one pattern, of either user; meetings of two users,
\* standalone or carrying one of two recurrence ids (stored or not, the
\* caller's or not), on the day of their id at the times of day 0-1; then one
\* scoped update or scoped delete by one user, through either service, and the
\* behaviour ends.  Rows and patterns carry user_id here.
MaxOwned == 2         \* meetings created

Users == {"anna", "ben"}

OwnerRecs == {OrphanRec, OrphanRec + 1}

\* faulty variant: the query has no filter on user_id
WholeStore(rows, user_id) == rows

\* the rows of a table that the storage calls made for user_id work on: get_all,
\* get_by_id, update and delete all filter on user_id == str(user_id)
get_all(rows, user_id) ==
    [i \in {j \in DOMAIN rows : rows[j].user_id = user_id} |-> rows[i]]

\* the table after a handler that worked on the rows seen and left them as left
WriteBack(rows, seen, left) ==
    [i \in ((DOMAIN rows) \ (DOMAIN seen)) \cup (DOMAIN left) |->
         IF i \in DOMAIN left THEN left[i] ELSE rows[i]]

OwnerOps == {"update_recurring_meeting", "update_meeting",
             "delete_recurring_meeting", "delete_meeting"}

\* meeting i is none of the caller's meetings of the target's pattern, and is
\* not the target
Foreign(user_id, id, i) ==
    \/ meetings[i].user_id # user_id
    \/ /\ i # id
       /\ \/ ~Exists(meetings, id)
          \/ meetings[id].user_id # user_id
          \/ meetings[id].rec = NoRec
          \/ meetings[i].rec # meetings[id].rec

\* what a scoped operation did: the caller, the target, the request or scope,
\* the meetings it changed or removed, and the meetings that were foreign to it
OwnerLast(op, user_id, id, upd, ms) ==
    [op |-> op, user_id |-> user_id, id |-> id, upd |-> upd,
     modified |-> {i \in DOMAIN meetings : ~Exists(ms, i) \/ ms[i] # meetings[i]},
     foreign |-> {i \in DOMAIN meetings : Foreign(user_id, id, i)}]

\* the requests of the scoped operations: a scope, and either the status done
\* or a new end (and the start as it is)
OwnerRequests(row) ==
    {upd \in ScopedRequests(row) :
         /\ upd.scope \in RecurrenceUpdateScope
         /\ upd.start = None => upd.status = DONE
         /\ upd.start # None => upd.status = NoStatus /\ upd.start = row.start}

\* RecurrenceService.create_recurrence for a user, before any meeting
CreateOwnedPattern(r, user_id) ==
    /\ last.op \notin OwnerOps
    /\ patterns = <<>>
    /\ meetings = <<>>
    /\ recurrences' = recurrences \cup {r}
    /\ patterns' = Put(patterns, r, [start_time |-> 0, end_time |-> 1, user_id |-> user_id])
    /\ last' = [op |-> "create_recurrence"]
    /\ UNCHANGED <<meetings, jobs, firing, now, running, scheduler, nextId, calls, memberships, reads>>

\* MeetingService.create_meeting for a user, with any recurrence_id or none
CreateOwned(user_id, rec) ==
    /\ last.op \notin OwnerOps
    /\ nextId <= MaxOwned
    /\ LET st == create_meeting(meetings, jobs, nextId,
                                [start |-> datetime_combine(nextId, 0),
                                 end |-> datetime_combine(nextId, 1),
                                 status |-> UPCOMING, rec |-> rec, user_id |-> user_id])
       IN  meetings' = st.ms /\ jobs' = st.js
    /\ nextId' = nextId + 1
    /\ last' = [op |-> "create_meeting"]
    /\ UNCHANGED <<recurrences, firing, now, running, scheduler, calls, memberships, patterns, reads>>

\* PUT /recurrences/meetings/{meeting_id} by user_id
UpdateRecurringMeetingBy(user_id, id, upd) ==
    /\ last.op \notin OwnerOps
    /\ LET seen == get_all(meetings, user_id)
           pats == get_all(patterns, user_id)
           out == update_recurring_meeting(seen, jobs, pats, id, upd)
       IN  /\ meetings' = WriteBack(meetings, seen, out.ms)
           /\ jobs' = out.js
           /\ patterns' = WriteBack(patterns, pats, out.pats)
           /\ last' = OwnerLast("update_recurring_meeting", user_id, id, upd, meetings')
    /\ UNCHANGED <<recurrences, firing, now, running, scheduler, nextId, calls, memberships, reads>>

\* PUT /meetings/{meeting_id} by user_id
UpdateMeetingBy(user_id, id, upd) ==
    /\ last.op \notin OwnerOps
    /\ LET seen == get_all(meetings, user_id)
           pats == get_all(patterns, user_id)
           out == update_meeting_scoped(seen, jobs, pats, id, upd)
       IN  /\ meetings' = WriteBack(meetings, seen, out.ms)
           /\ jobs' = out.js
           /\ patterns' = WriteBack(patterns, pats, out.pats)
           /\ last' = OwnerLast("update_meeting", user_id, id, upd, meetings')
    /\ UNCHANGED <<recurrences, firing, now, running, scheduler, nextId, calls, memberships, reads>>

\* DELETE /recurrences/meetings/{meeting_id} by user_id
DeleteRecurringMeetingBy(user_id, id, scope) ==
    /\ last.op \notin OwnerOps
    /\ LET seen == get_all(meetings, user_id)
           out == delete_recurring_meeting(seen, jobs, id, scope)
       IN  /\ meetings' = WriteBack(meetings, seen, out.ms)
           /\ jobs' = out.js
           /\ last' = OwnerLast("delete_recurring_meeting", user_id, id, [scope |-> scope],
                                meetings')
    /\ UNCHANGED <<recurrences, firing, now, running, scheduler, nextId, calls, memberships, patterns, reads>>

\* DELETE /meetings/{meeting_id} by user_id with a delete_scope
DeleteMeetingBy(user_id, id, scope) ==
    /\ last.op \notin OwnerOps
    /\ LET seen == get_all(meetings, user_id)
           out == delete_meeting(seen, jobs, id, scope)
       IN  /\ meetings' = WriteBack(meetings, seen, out.ms)
           /\ jobs' = out.js
           /\ last' = OwnerLast("delete_meeting", user_id, id, [scope |-> scope], meetings')
    /\ UNCHANGED <<recurrences, firing, now, running, scheduler, nextId, calls, memberships, patterns, reads>>

OwnerNext ==
    \/ \E r \in OwnerRecs : \E u \in Users : CreateOwnedPattern(r, u)
    \/ \E u \in Users : \E rec \in {NoRec} \cup OwnerRecs : CreateOwned(u, rec)
    \/ \E u \in Users : \E id \in DOMAIN meetings : \E upd \in OwnerRequests(meetings[id]) :
           UpdateRecurringMeetingBy(u, id, upd)
    \/ \E u \in Users : \E id \in DOMAIN meetings : \E upd \in OwnerRequests(meetings[id]) :
           UpdateMeetingBy(u, id, upd)
    \/ \E u \in Users : \E id \in DOMAIN meetings : \E scope \in RecurrenceUpdateScope :
           DeleteRecurringMeetingBy(u, id, scope)
    \/ \E u \in Users : \E id \in DOMAIN meetings : \E scope \in RecurrenceUpdateScope :
           DeleteMeetingBy(u, id, scope)

OwnerSpec == ScopeInit /\ [][OwnerNext]_vars

\* ==================================================================== claims

\* C1: with a scheduler, every upcoming meeting whose end instant has passed
\* eventually has status done without any user operation, also when the
\* process is stopped before the end instant and started again after it
C1_OverdueEventuallyDone ==
    \A id \in Ids :
        (scheduler /\ Overdue(id)) ~> (Exists(meetings, id) /\ meetings[id].status = DONE)

C3_OnFireIdempotent ==
    \A id \in Ids :
        LET once == update_meeting_status(meetings, id, now)
        IN  /\ update_meeting_status(once, id, now) = once
            /\ (Exists(meetings, id) /\ meetings[id].status \in {DONE, CANCELED}) => once = meetings

C3_Witness ==
    \E id \in firing :
        Exists(meetings, id) /\ meetings[id].status \in {DONE, CANCELED} /\ meetings[id].end <= now

\* C4: after any sequence of arm and cancel calls the job store holds, for
\* each id whose last call was an arm, one job that runs at the time of that
\* arm, and nothing else
C4_OneJobPerId ==
    jobs = {[id |-> i, run |-> calls[i].t] : i \in {k \in JobIds : calls[k].op = "arm"}}

C4_Witness ==
    \E id, k \in JobIds :
        /\ calls[id].op = "arm" /\ calls[id].had
        /\ calls[k].op = "cancel" /\ ~calls[k].had
        /\ \E i \in JobIds \ {id, k} : HasJob(jobs, i)

\* C5: with a scheduler, every upcoming meeting whose end instant is in the
\* future has exactly one job, and the job runs at the meeting's end instant
C5_FutureUpcomingArmed ==
    scheduler =>
        \A i \in FutureUpcoming(meetings, now) :
            JobsOf(jobs, i) = {[id |-> i, run |-> meetings[i].end]}

\* C6: every job of the job store is the job of a stored meeting
C6_NoOrphanJob ==
    \A j \in jobs : Exists(meetings, j.id)

C6_Witness == last.op = "cascade" /\ last.hit

\* C7: a recovery pass that follows a pass that reported no error, with no
\* change of the stores and no end instant passed in between, leaves the job
\* store as it is and reports no job scheduled and every future upcoming
\* meeting as already having its job
C7_RecoverTwice ==
    [][(last'.op = "recover" /\ last'.rerun) =>
          /\ jobs' = jobs
          /\ last'.rep.jobs_scheduled = 0
          /\ last'.rep.jobs_already_exist = Cardinality(FutureUpcoming(meetings', now'))]_vars

\* C8: when a recovery pass in which no arming failed has finished, no meeting
\* is upcoming with its end instant passed, and every upcoming meeting with a
\* future end instant has a job
C8_RecoverResolvesPast ==
    (last.op = "recover" /\ last.failing = {} /\ scheduler) =>
        /\ \A i \in DOMAIN meetings : ~Overdue(i)
        /\ NeedArm(meetings, jobs, now) = {}

\* C9: in a recovery pass in which arming fails for some meetings, exactly
\* those meetings are reported in errors, and every other upcoming meeting with
\* a future end instant that had no job is armed at its end instant
C9_RecoverIsolatesFailures ==
    [][(last'.op = "recover" /\ last'.failing # {}) =>
          /\ last'.rep.errors = last'.failing
          /\ ~last'.rep.success
          /\ \A i \in NeedArm(meetings, jobs, now) \ last'.failing :
                 JobsOf(jobs', i) = {[id |-> i, run |-> meetings[i].end]}]_vars

C9_Witness ==
    /\ last.op = "recover"
    /\ last.hit
    /\ \E i \in last.rep.errors, k \in DOMAIN meetings : i < k /\ HasJob(jobs, k)
    /\ last.rep.jobs_scheduled > 0

\* the k-th date of a pattern that starts at d: d + (k - 1) steps
RECURSIVE StepDate(_, _, _)
StepDate(frequency, d, k) ==
    IF k = 1 THEN d
    ELSE IF frequency = WEEKLY THEN StepDate(frequency, AddDays(d, 7), k - 1)
    ELSE IF frequency = BIWEEKLY THEN StepDate(frequency, AddDays(d, 14), k - 1)
    ELSE IF d.month = 12 THEN StepDate(frequency, [d EXCEPT !.year = @ + 1, !.month = 1], k - 1)
    ELSE StepDate(frequency, [d EXCEPT !.month = @ + 1], k - 1)

\* C10: a materialization returns a list; the list holds one draft for each
\* date start_date + k steps that is not after end_date and no other draft, in
\* ascending order (so it is empty exactly when start_date is after end_date);
\* each draft is upcoming, not paid, and starts and ends on its date at the
\* pattern's times of day
C10_MaterializeDrafts ==
    last.op = "materialize" =>
        LET out == last.out.instances
            n == Len(out)
        IN  /\ ~last.out.raised
            /\ \A k \in 1..n :
                   LET d == StepDate(last.frequency, last.start_date, k)
                   IN  /\ DateTimeLE(d, last.end_date)
                       /\ out[k] = [start |-> Combine(d, last.start_time),
                                    end |-> Combine(d, last.end_time),
                                    status |-> UPCOMING, paid |-> FALSE]
            /\ ~DateTimeLE(StepDate(last.frequency, last.start_date, n + 1), last.end_date)
            /\ (n > 0) = DateTimeLE(last.start_date, last.end_date)

\* the months of a date counted from year 0
MonthIndex(d) == d.year * 12 + d.month - 1

\* C11: a monthly materialization returns a list in which the first draft is on
\* the start date, each next draft is on the same day of the next calendar
\* month (January of the following year after December), and the month after
\* the last draft's is past the end date: no month is skipped or produced twice
C11_MonthlyStep ==
    (last.op = "materialize" /\ last.frequency = MONTHLY
        /\ DateTimeLE(last.start_date, last.end_date)) =>
        LET out == last.out.instances
            n == Len(out)
            date(k) == [out[k].start EXCEPT !.tod = 0]
        IN  /\ ~last.out.raised
            /\ n >= 1
            /\ date(1) = [last.start_date EXCEPT !.tod = 0]
            /\ \A k \in 1..(n - 1) :
                   /\ MonthIndex(date(k + 1)) = MonthIndex(date(k)) + 1
                   /\ date(k + 1).day = date(k).day
                   /\ date(k).month = 12 =>
                          (date(k + 1).month = 1 /\ date(k + 1).year = date(k).year + 1)
            /\ MonthIndex(date(n)) =
                   MonthIndex(last.end_date)
                       - (IF DateTimeLE([last.end_date EXCEPT !.day = date(n).day,
                                                              !.tod = last.start_date.tod],
                                        last.end_date)
                          THEN 0 ELSE 1)

\* the credits of membership m that are left in the meeting store ms
CreditsLeft(ms, m) ==
    memberships[m].total_meetings
        - Cardinality({i \in DOMAIN ms : ms[i].mem = m /\ ms[i].status = DONE})
        - Cardinality({i \in DOMAIN ms : ms[i].mem = m /\ ms[i].status = UPCOMING})

DeletionScope(ms, id, scope) ==
    IF scope = THIS_MEETING_ONLY THEN {id}
    ELSE IF scope = THIS_AND_FUTURE
    THEN {i \in DOMAIN ms : ms[i].rec = ms[id].rec /\ ms[i].start >= ms[id].start}
    ELSE {i \in DOMAIN ms : ms[i].rec = ms[id].rec}

\* C18: a scoped delete of a meeting of a recurrence, through delete_meeting or
\* through delete_recurring_meeting, removes exactly the meetings in scope,
\* whatever their status, with their jobs, and changes no other meeting or job
C18_DeleteRemovesScope ==
    [][\A id \in Allocated, scope \in RecurrenceUpdateScope :
          (/\ Exists(meetings, id)
           /\ meetings[id].rec # NoRec
           /\ (DeleteMeeting(id, scope) \/ DeleteRecurringMeeting(id, scope))) =>
              LET gone == DeletionScope(meetings, id, scope)
              IN  /\ meetings' = [i \in (DOMAIN meetings) \ gone |-> meetings[i]]
                  /\ jobs' = {j \in jobs : j.id \notin gone}]_vars

\* C19: a scoped delete called with a scope outside the enumeration, for a
\* stored meeting, ends with an error
C19_InvalidScopeRejected ==
    [][\A id \in Allocated, scope \in DeleteScopes \ (RecurrenceUpdateScope \cup {NoScope}) :
          Exists(meetings, id) =>
              /\ DeleteMeeting(id, scope) => delete_meeting_raises(meetings, id, scope)
              /\ DeleteRecurringMeeting(id, scope) =>
                     delete_recurring_meeting_raises(meetings, id, scope)]_vars

\* C20: a delete that ends with the invalid scope error has written nothing:
\* the meeting store, the recurrence store and the job store are as before
C20_RejectedWritesNothing ==
    [][\A id \in Allocated, scope \in DeleteScopes :
          (DeleteMeeting(id, scope) /\ delete_meeting_raises(meetings, id, scope)) =>
              UNCHANGED <<meetings, recurrences, jobs, reads>>]_vars

\* the jobs of the meetings other than id
OtherJobs(js, id) == {j \in js : j.id # id}

\* C14: a scoped update with scope this_meeting_only, or with any scope when the
\* target is a standalone meeting, changes no meeting other than the target,
\* leaves the pattern and the jobs of the other meetings as they were, and
\* returns exactly the target
C14_ThisOnlyTouchesTarget ==
    [][\A id \in Allocated :
           ( /\ last'.op \in ScopedOps
             /\ last'.id = id
             /\ last'.upd.scope = THIS_MEETING_ONLY \/ meetings[id].rec = NoRec
             /\ UpdateRecurringMeeting(id, last'.upd) \/ UpdateMeetingScoped(id, last'.upd) )
           => /\ \A i \in (DOMAIN meetings) \ {id} : meetings'[i] = meetings[i]
              /\ DOMAIN meetings' = DOMAIN meetings
              /\ patterns' = patterns
              /\ OtherJobs(jobs', id) = OtherJobs(jobs, id)
              /\ last'.result = <<id>>]_vars

\* a this_meeting_only update changed its target, a meeting of a pattern with
\* another meeting
C14_Witness ==
    /\ last.op \in ScopedOps
    /\ last.upd.scope = THIS_MEETING_ONLY
    /\ meetings[last.id].rec # NoRec
    /\ Cardinality(get_recurring_meetings(meetings, meetings[last.id].rec)) > 1
    /\ last.modified = {last.id}

\* C15: a scoped update with scope this_and_future leaves every meeting of the
\* target's pattern that starts before the target's start as it was, row and job
C15_FutureSparesEarlier ==
    [][\A id \in Allocated :
           ( /\ last'.op \in ScopedOps
             /\ last'.id = id
             /\ last'.upd.scope = THIS_AND_FUTURE
             /\ meetings[id].rec # NoRec
             /\ UpdateRecurringMeeting(id, last'.upd) \/ UpdateMeetingScoped(id, last'.upd) )
           => \A i \in get_recurring_meetings(meetings, meetings[id].rec) :
                  meetings[i].start < meetings[id].start
                      => /\ meetings'[i] = meetings[i]
                         /\ JobsOf(jobs', i) = JobsOf(jobs, i)]_vars

\* a this_and_future update changed its target and the pattern has a meeting
\* that started before the target
C15_Witness ==
    /\ last.op = "update_recurring_meeting"
    /\ last.upd.scope = THIS_AND_FUTURE
    /\ last.earlier # {}
    /\ last.id \in last.modified

\* C16: a scoped update with scope all_meetings and no time field, through
\* either service, applies the edit (here the status) to every meeting of the
\* target's pattern and returns one meeting for each of them
C16_AllReachesEveryMember ==
    [][\A id \in Allocated :
           ( /\ last'.op \in ScopedOps
             /\ last'.id = id
             /\ last'.upd.scope = ALL_MEETINGS
             /\ last'.upd.start = None /\ last'.upd.end = None
             /\ last'.upd.status # NoStatus
             /\ meetings[id].rec # NoRec
             /\ UpdateRecurringMeeting(id, last'.upd) \/ UpdateMeetingScoped(id, last'.upd) )
           => /\ \A i \in get_recurring_meetings(meetings, meetings[id].rec) :
                     meetings'[i].status = last'.upd.status
              /\ Len(last'.result) = Cardinality(get_recurring_meetings(meetings, meetings[id].rec))]_vars

\* the same through RecurrenceService.update_recurring_meeting alone
C16_ViaRecurrenceService ==
    [][\A id \in Allocated :
           ( /\ last'.op = "update_recurring_meeting"
             /\ last'.id = id
             /\ last'.upd.scope = ALL_MEETINGS
             /\ last'.upd.start = None /\ last'.upd.end = None
             /\ last'.upd.status # NoStatus
             /\ meetings[id].rec # NoRec
             /\ UpdateRecurringMeeting(id, last'.upd) )
           => /\ \A i \in get_recurring_meetings(meetings, meetings[id].rec) :
                     meetings'[i].status = last'.upd.status
              /\ Len(last'.result) = Cardinality(get_recurring_meetings(meetings, meetings[id].rec))]_vars

\* the siblings of the target that a step changed keep their date, and their
\* start and end moved by as much as the target's start and end
SiblingsFollowTarget(id) ==
    \A i \in get_recurring_meetings(meetings, meetings[id].rec) \ {id} :
        meetings'[i] # meetings[i]
            => /\ Date(meetings'[i].start) = Date(meetings[i].start)
               /\ meetings'[i].start - meetings[i].start
                      = meetings'[id].start - meetings[id].start
               /\ meetings'[i].end - meetings[i].end = meetings'[id].end - meetings[id].end

\* C17: in a this_and_future edit of the times, every other meeting of the
\* pattern that is changed keeps its date and is moved by the target's delta
C17_SiblingsShiftLikeTarget ==
    [][\A id \in Allocated :
           ( /\ last'.op \in ScopedOps
             /\ last'.id = id
             /\ last'.upd.scope = THIS_AND_FUTURE
             /\ last'.upd.start # None \/ last'.upd.end # None
             /\ meetings[id].rec # NoRec
             /\ UpdateRecurringMeeting(id, last'.upd) \/ UpdateMeetingScoped(id, last'.upd) )
           => SiblingsFollowTarget(id)]_vars

\* the same for a target that is at the times of its pattern before the edit
C17_TargetAtPatternTimes ==
    [][\A id \in Allocated :
           ( /\ last'.op \in ScopedOps
             /\ last'.id = id
             /\ last'.upd.scope = THIS_AND_FUTURE
             /\ last'.upd.start # None \/ last'.upd.end # None
             /\ meetings[id].rec # NoRec
             /\ AtPatternTimes(meetings, patterns, id)
             /\ UpdateRecurringMeeting(id, last'.upd) \/ UpdateMeetingScoped(id, last'.upd) )
           => SiblingsFollowTarget(id)]_vars

\* the target of a scoped update is absent, or is of a pattern that is not stored
TargetOrPatternMissing(id) ==
    \/ ~Exists(meetings, id)
    \/ meetings[id].rec # NoRec /\ ~get_recurrence(patterns, meetings[id].rec)

\* C21: a scoped update whose target is absent, or whose target's pattern is
\* not stored, ends with the error and changes no meeting, job or pattern
C21_MissingIsNotFound ==
    [][\A id \in ScopedIds :
           ( /\ last'.op \in ScopedOps
             /\ last'.id = id
             /\ last'.upd.scope \in RecurrenceUpdateScope
             /\ TargetOrPatternMissing(id)
             /\ UpdateRecurringMeeting(id, last'.upd) \/ UpdateMeetingScoped(id, last'.upd) )
           => /\ last'.raised
              /\ UNCHANGED <<meetings, jobs, patterns>>]_vars

\* the same for an absent target alone
C21_AbsentTarget ==
    [][\A id \in ScopedIds :
           ( /\ last'.op \in ScopedOps
             /\ last'.id = id
             /\ ~Exists(meetings, id)
             /\ UpdateRecurringMeeting(id, last'.upd) \/ UpdateMeetingScoped(id, last'.upd) )
           => /\ last'.raised
              /\ UNCHANGED <<meetings, jobs, patterns>>]_vars

\* the same for a this_and_future or all_meetings update of the times of a
\* stored meeting whose pattern is not stored
C21_NoFallbackOffsets ==
    [][\A id \in ScopedIds :
           ( /\ last'.op \in ScopedOps
             /\ last'.id = id
             /\ last'.upd.scope \in {THIS_AND_FUTURE, ALL_MEETINGS}
             /\ last'.upd.start # None
             /\ Exists(meetings, id)
             /\ TargetOrPatternMissing(id)
             /\ UpdateRecurringMeeting(id, last'.upd) \/ UpdateMeetingScoped(id, last'.upd) )
           => /\ last'.raised
              /\ UNCHANGED <<meetings, jobs, patterns>>]_vars

\* C22: every stored meeting ends after it starts
C22_EndAfterStart ==
    \A i \in DOMAIN meetings : meetings[i].start < meetings[i].end

\* the same for one step: a direct update that carries only a start, or only
\* an end, of a meeting that ends after it starts leaves it so
C22_OneTimeEdit ==
    [][\A id \in DOMAIN meetings :
           ( /\ last'.op = "update_meeting"
             /\ last'.id = id
             /\ (last'.upd.start = None) # (last'.upd.end = None)
             /\ meetings[id].start < meetings[id].end
             /\ UpdatePriced(id, last'.upd) )
           => meetings'[id].start < meetings'[id].end]_vars

\* C23: the total price of every stored meeting is its duration times its rate
C23_TotalIsDurationTimesRate ==
    \A i \in DOMAIN meetings :
        meetings[i].price_total
            = price_total(meetings[i].start, meetings[i].end, meetings[i].price_per_hour)

\* the same for the steps that send no rate of 0: creations, stamped drafts,
\* and updates and exceptions whose rate is absent or positive
C23_PositiveRates ==
    [][( /\ last'.op \in {"create_meeting", "create_recurrence", "update_meeting",
                          "create_recurrence_exception"}
         /\ last'.op \in {"update_meeting", "create_recurrence_exception"}
                => last'.upd.price_per_hour # 0
         /\ C23_TotalIsDurationTimesRate )
       => C23_TotalIsDurationTimesRate']_vars

C25_TargetGetsNewTimes ==
    [][\A id \in Allocated :
           ( /\ last'.op \in ScopedOps
             /\ last'.id = id
             /\ last'.upd.scope \in {THIS_AND_FUTURE, ALL_MEETINGS}
             /\ last'.upd.start # None /\ last'.upd.end # None
             /\ meetings[id].rec # NoRec
             /\ UpdateRecurringMeeting(id, last'.upd) \/ UpdateMeetingScoped(id, last'.upd) )
           => /\ meetings'[id].start = last'.upd.start
              /\ meetings'[id].end = last'.upd.end]_vars

\* the same through MeetingService alone
C25_ViaMeetingService ==
    [][\A id \in Allocated :
           ( /\ last'.op = "update_meeting"
             /\ last'.id = id
             /\ last'.upd.scope \in {THIS_AND_FUTURE, ALL_MEETINGS}
             /\ last'.upd.start # None /\ last'.upd.end # None
             /\ meetings[id].rec # NoRec
             /\ UpdateMeetingScoped(id, last'.upd) )
           => /\ meetings'[id].start = last'.upd.start
              /\ meetings'[id].end = last'.upd.end]_vars

\* the same through RecurrenceService for a target at the pattern's times
C25_TargetAtPatternTimes ==
    [][\A id \in Allocated :
           ( /\ last'.op = "update_recurring_meeting"
             /\ last'.id = id
             /\ last'.upd.scope \in {THIS_AND_FUTURE, ALL_MEETINGS}
             /\ last'.upd.start # None /\ last'.upd.end # None
             /\ meetings[id].rec # NoRec
             /\ AtPatternTimes(meetings, patterns, id)
             /\ UpdateRecurringMeeting(id, last'.upd) )
           => /\ meetings'[id].start = last'.upd.start
              /\ meetings'[id].end = last'.upd.end]_vars

\* C26: after a this_and_future or all_meetings update of the times, through
\* either service, the pattern's times of day are those of the request's times
C26_PatternFollowsEdit ==
    [][\A id \in Allocated :
           ( /\ last'.op \in ScopedOps
             /\ last'.id = id
             /\ last'.upd.scope \in {THIS_AND_FUTURE, ALL_MEETINGS}
             /\ last'.upd.start # None /\ last'.upd.end # None
             /\ meetings[id].rec # NoRec
             /\ UpdateRecurringMeeting(id, last'.upd) \/ UpdateMeetingScoped(id, last'.upd) )
           => /\ patterns'[meetings[id].rec].start_time = TimeOfDay(last'.upd.start)
              /\ patterns'[meetings[id].rec].end_time = TimeOfDay(last'.upd.end)]_vars

\* the same through RecurrenceService alone
C26_ViaRecurrenceService ==
    [][\A id \in Allocated :
           ( /\ last'.op = "update_recurring_meeting"
             /\ last'.id = id
             /\ last'.upd.scope \in {THIS_AND_FUTURE, ALL_MEETINGS}
             /\ last'.upd.start # None /\ last'.upd.end # None
             /\ meetings[id].rec # NoRec
             /\ UpdateRecurringMeeting(id, last'.upd) )
           => /\ patterns'[meetings[id].rec].start_time = TimeOfDay(last'.upd.start)
              /\ patterns'[meetings[id].rec].end_time = TimeOfDay(last'.upd.end)]_vars

\* a scoped update through RecurrenceService during which no meeting update
\* fails and the pattern's update fails: the call does not raise, returns the
\* meetings it updated, each changed as requested, and the pattern is unchanged
C26_PatternFailureKeepsEdits ==
    [][\A id \in Allocated :
           ( /\ last'.op = "update_recurring_meeting"
             /\ last'.id = id
             /\ last'.pattern_fails
             /\ last'.failing \cap DOMAIN last'.requested = {}
             /\ UpdateWithFailures(id, last'.upd, last'.failing, TRUE) )
           => /\ ~last'.raised
              /\ patterns' = patterns
              /\ {last'.result[k] : k \in DOMAIN last'.result} = DOMAIN last'.requested
              /\ \A i \in DOMAIN last'.requested :
                     meetings'[i] = ApplyFields(meetings[i], last'.requested[i])]_vars

\* a scoped update through RecurrenceService that raised left the pattern as it
\* was: the pattern is written after the loop over the meetings
C26_PatternWrittenLast ==
    [][\A id \in Allocated :
           ( /\ last'.op = "update_recurring_meeting"
             /\ last'.id = id
             /\ last'.raised
             /\ UpdateWithFailures(id, last'.upd, last'.failing, last'.pattern_fails) )
           => patterns' = patterns]_vars

\* C27: when the store update of some meetings other than the target fails
\* during a this_and_future or all_meetings update, the call does not raise,
\* every other meeting it was to update is changed as requested and is in the
\* returned list, and the failing meetings are unchanged
C27_FailuresAreIsolated ==
    [][\A id \in Allocated :
           ( /\ last'.op = "update_recurring_meeting"
             /\ last'.id = id
             /\ id \notin last'.failing
             /\ last'.failing \cap DOMAIN last'.requested # {}
             /\ UpdateWithFailures(id, last'.upd, last'.failing, last'.pattern_fails) )
           => /\ ~last'.raised
              /\ \A i \in DOMAIN last'.requested \ last'.failing :
                     /\ meetings'[i] = ApplyFields(meetings[i], last'.requested[i])
                     /\ \E k \in DOMAIN last'.result : last'.result[k] = i
              /\ \A i \in last'.failing : meetings'[i] = meetings[i]]_vars

\* what the loop does instead: the meetings before the first failing one, in
\* the order of their starts, are changed as requested, the others are
\* unchanged, and the call raises
C27_StopsAtFirstFailure ==
    [][\A id \in Allocated :
           ( /\ last'.op = "update_recurring_meeting"
             /\ last'.id = id
             /\ last'.failing \cap DOMAIN last'.requested # {}
             /\ UpdateWithFailures(id, last'.upd, last'.failing, last'.pattern_fails) )
           => /\ last'.raised
              /\ \A i \in DOMAIN last'.requested :
                     meetings'[i] =
                         IF \E f \in last'.failing \cap DOMAIN last'.requested :
                                meetings[f].start <= meetings[i].start
                         THEN meetings[i]
                         ELSE ApplyFields(meetings[i], last'.requested[i])]_vars

\* C28: a this_and_future or all_meetings update without start and end, through
\* either service, leaves the start and the end of every meeting of the
\* target's pattern as they were
C28_NoTimesNoMove ==
    [][\A id \in Allocated :
           ( /\ last'.op \in ScopedOps
             /\ last'.id = id
             /\ last'.upd.scope \in {THIS_AND_FUTURE, ALL_MEETINGS}
             /\ last'.upd.start = None /\ last'.upd.end = None
             /\ meetings[id].rec # NoRec
             /\ UpdateRecurringMeeting(id, last'.upd) \/ UpdateMeetingScoped(id, last'.upd) )
           => \A i \in get_recurring_meetings(meetings, meetings[id].rec) :
                  /\ meetings'[i].start = meetings[i].start
                  /\ meetings'[i].end = meetings[i].end]_vars

\* the same through MeetingService alone
C28_ViaMeetingService ==
    [][\A id \in Allocated :
           ( /\ last'.op = "update_meeting"
             /\ last'.id = id
             /\ last'.upd.scope \in {THIS_AND_FUTURE, ALL_MEETINGS}
             /\ last'.upd.start = None /\ last'.upd.end = None
             /\ meetings[id].rec # NoRec
             /\ UpdateMeetingScoped(id, last'.upd) )
           => \A i \in get_recurring_meetings(meetings, meetings[id].rec) :
                  /\ meetings'[i].start = meetings[i].start
                  /\ meetings'[i].end = meetings[i].end]_vars

\* the same through either service for the meetings other than the target, and
\* for a target that is at the pattern's times
C28_AwayFromDriftedTarget ==
    [][\A id \in Allocated :
           ( /\ last'.op \in ScopedOps
             /\ last'.id = id
             /\ last'.upd.scope \in {THIS_AND_FUTURE, ALL_MEETINGS}
             /\ last'.upd.start = None /\ last'.upd.end = None
             /\ meetings[id].rec # NoRec
             /\ UpdateRecurringMeeting(id, last'.upd) \/ UpdateMeetingScoped(id, last'.upd) )
           => \A i \in get_recurring_meetings(meetings, meetings[id].rec) :
                  (i # id \/ AtPatternTimes(meetings, patterns, id))
                      => /\ meetings'[i].start = meetings[i].start
                         /\ meetings'[i].end = meetings[i].end]_vars

\* C29: the fire callback's commit changes a meeting only when the meeting is
\* upcoming at the commit: a status that a user edit wrote after the callback
\* read the row (canceled, say) is never replaced by done
C29_FireKeepsUserStatus ==
    [][\A id \in Ids :
           (Exists(reads, id) /\ Exists(meetings, id) /\ FireCommit(id))
               => (meetings[id].status # UPCOMING => meetings'[id].status = meetings[id].status)]_vars

\* the same for the callback taken as one step (the life cycle of Spec)
C29_OneStepFire ==
    [][\A id \in Ids :
           (id \in firing /\ Exists(meetings, id) /\ OnFire(id))
               => (meetings[id].status # UPCOMING => meetings'[id].status = meetings[id].status)]_vars

\* C30: a scoped update or a scoped delete by a user, through either service
\* and with any scope, leaves every meeting that is not one of the caller's
\* meetings of the target's pattern, and is not the target, stored with its
\* row and its job as they were
C30_ScopedOpsConfined ==
    [][(last'.op \in OwnerOps /\ last.op \notin OwnerOps)
           => \A i \in DOMAIN meetings :
                  Foreign(last'.user_id, last'.id, i)
                      => /\ Exists(meetings', i)
                         /\ meetings'[i] = meetings[i]
                         /\ JobsOf(jobs', i) = JobsOf(jobs, i)]_vars

\* an all_meetings update changed its target while another user's meeting with
\* the same recurrence id is stored
C30_Witness ==
    /\ last.op = "update_recurring_meeting"
    /\ last.upd.scope = ALL_MEETINGS
    /\ last.id \in last.modified
    /\ \E i \in last.foreign :
           /\ meetings[i].rec = meetings[last.id].rec
           /\ meetings[i].user_id # last.user_id

\* a scoped delete removed its target while a standalone meeting of the caller
\* is stored
C30_DeleteSparesStandalone ==
    /\ last.op \in {"delete_recurring_meeting", "delete_meeting"}
    /\ last.upd.scope = ALL_MEETINGS
    /\ last.id \in last.modified
    /\ \E i \in last.foreign : meetings[i].rec = NoRec /\ meetings[i].user_id = last.user_id

====
